---------------------------- MODULE Spec2Model ----------------------------
(***************************************************************************)
(* glidemq-dashboard: the Express router built by createDashboard.         *)
(*                                                                         *)
(* One REST request is followed from its arrival to its response.  A step  *)
(* of the model is the code a handler runs between two suspension points   *)
(* (await): the mutation guard, the authorize callback settling, the       *)
(* registry lookup with the validation that follows it, and every engine   *)
(* call settling.                                                          *)
(*                                                                         *)
(* Encoding of JavaScript values:                                          *)
(*   - an optional value (undefined or v) is <<>> or <<v>>;                *)
(*   - a string that is parsed (parseInt) is a sequence of one-character   *)
(*     strings; a string that is only compared is a TLA+ string;           *)
(*   - a number that may be NaN is <<>> (NaN) or <<n>>.                    *)
(***************************************************************************)
EXTENDS Integers, Sequences, FiniteSets, TLC

VARIABLES
    opts,        \* DashboardOptions handed to createDashboard
    pc,          \* position of the request handler
    req,         \* the request being handled (route, params, query, body)
    loc,         \* the handler's local variables
    authCalls,   \* action tags authorize was invoked with, for this request
    calls,       \* engine and job-handle calls issued for this request, in order
    pending,     \* engine calls of this request that have not settled
    tagged,      \* the `tagged` accumulator of the job listing
    res,         \* response writes of this request, in order
    failed,      \* what the engine calls of this request rejected with, in order
    conns,       \* the event-stream connections: locals and response of each
    emitters     \* listener lists of the QueueEvents sources, per event name

vars == <<opts, pc, req, loc, authCalls, calls, pending, tagged, res, failed,
          conns, emitters>>

-----------------------------------------------------------------------------
(* Optional values and NaN *)

None == <<>>

Some(v) == <<v>>

NaN == <<>>

Num(n) == <<n>>

IsNaN(x) == x = NaN

Min(a, b) == IF a <= b THEN a ELSE b

Max(a, b) == IF a >= b THEN a ELSE b

-----------------------------------------------------------------------------
(* Program constants *)

MAX_PAGE_SIZE == 200

VALID_STATES == <<"waiting", "active", "delayed", "completed", "failed">>

Range(s) == {s[i] : i \in 1..Len(s)}

\* the queues handed to createDashboard, in order; queueMap is built from them
QueueNames == <<"payments", "emails">>

queueMap == Range(QueueNames)


-----------------------------------------------------------------------------
(* parseInt(value, 10), as ECMAScript defines it: the value is converted   *)
(* to a string (undefined gives "undefined"), leading white space is       *)
(* skipped, one sign is read, then the longest prefix of decimal digits;   *)
(* no digit gives NaN, and whatever follows the digits is ignored.         *)

DigitChars == <<"0", "1", "2", "3", "4", "5", "6", "7", "8", "9">>

IsDigit(c) == \E d \in 1..10 : DigitChars[d] = c

DigitVal(c) == (CHOOSE d \in 1..10 : DigitChars[d] = c) - 1

IsSpace(c) == c = " "

RECURSIVE SkipSpaces(_)
SkipSpaces(s) ==
    IF s # <<>> /\ IsSpace(Head(s)) THEN SkipSpaces(Tail(s)) ELSE s

\* the value of the longest digit prefix of s, read after the digits of acc
RECURSIVE DigitsValue(_, _)
DigitsValue(s, acc) ==
    IF s # <<>> /\ IsDigit(Head(s))
    THEN DigitsValue(Tail(s), 10 * acc + DigitVal(Head(s)))
    ELSE acc

ParseIntChars(str) ==
    LET s     == SkipSpaces(str)
        neg   == s # <<>> /\ Head(s) = "-"
        body  == IF s # <<>> /\ Head(s) \in {"-", "+"} THEN Tail(s) ELSE s
    IN  IF body = <<>> \/ ~IsDigit(Head(body))
        THEN NaN
        ELSE Num((IF neg THEN -1 ELSE 1) * DigitsValue(body, 0))

\* v is an optional string: parseInt(undefined, 10) is NaN
parseInt(v) == IF v = None THEN NaN ELSE ParseIntChars(v[1])

\* `x || dflt` on a number: NaN and 0 (and -0) are falsy
OrElse(x, dflt) == IF IsNaN(x) \/ x[1] = 0 THEN dflt ELSE x[1]

-----------------------------------------------------------------------------
(* Pagination window of the job listing and of the DLQ listing             *)

\* const start = parseInt(req.query.start, 10) || 0
PageStart(qstart) == OrElse(parseInt(qstart), 0)

\* const endVal = isNaN(end) ? 20 : Math.min(end, start + MAX_PAGE_SIZE)
PageEndVal(qstart, qend) ==
    LET end == parseInt(qend)
    IN  IF IsNaN(end) THEN 20 ELSE Min(end[1], PageStart(qstart) + MAX_PAGE_SIZE)

-----------------------------------------------------------------------------
(* Array.prototype.slice(start, end) and the stable Array.prototype.sort   *)

RelIndex(i, len) == IF i < 0 THEN Max(len + i, 0) ELSE Min(i, len)

Slice(s, start, end) ==
    LET k == RelIndex(start, Len(s))
        f == RelIndex(end, Len(s))
    IN  IF k >= f THEN <<>> ELSE SubSeq(s, k + 1, f)

\* the comparator with its operands the other way round: oldest first
CompareTs_Ascending(a, b) == a.timestamp - b.timestamp

\* (a, b) => (b.timestamp ?? 0) - (a.timestamp ?? 0)
CompareTs(a, b) == b.timestamp - a.timestamp

\* x placed in the sorted sequence s after every element it does not precede
RECURSIVE InsertSorted(_, _)
InsertSorted(s, x) ==
    IF s = <<>> THEN <<x>>
    ELSE IF CompareTs(Head(s), x) <= 0
         THEN <<Head(s)>> \o InsertSorted(Tail(s), x)
         ELSE <<x>> \o s

\* a listing that is not sorted at all
SortByTs_Unsorted(s) == s

\* the stable sort of s under CompareTs
RECURSIVE SortByTs(_)
SortByTs(s) ==
    IF s = <<>> THEN <<>>
    ELSE InsertSorted(SortByTs(SubSeq(s, 1, Len(s) - 1)), s[Len(s)])

-----------------------------------------------------------------------------
(* Routes                                                                  *)

QueueMutations == {"pause", "resume", "obliterate", "drain", "retryAll", "clean"}

JobMutations == {"removeJob", "retryJob", "promoteJob"}

MutatingRoutes == QueueMutations \cup JobMutations

\* the promote handler handing over the retry handler's action string
ActionTag_PromoteAsRetry(route) ==
    CASE route = "pause"      -> "queue:pause"
      [] route = "resume"     -> "queue:resume"
      [] route = "removeJob"  -> "job:remove"
      [] route = "retryJob"   -> "job:retry"
      [] route = "promoteJob" -> "job:retry"
      [] route = "obliterate" -> "queue:obliterate"
      [] route = "drain"      -> "queue:drain"
      [] route = "retryAll"   -> "queue:retryAll"
      [] route = "clean"      -> "queue:clean"

\* the action string each mutation handler hands to guardMutation
ActionTag(route) ==
    CASE route = "pause"      -> "queue:pause"
      [] route = "resume"     -> "queue:resume"
      [] route = "removeJob"  -> "job:remove"
      [] route = "retryJob"   -> "job:retry"
      [] route = "promoteJob" -> "job:promote"
      [] route = "obliterate" -> "queue:obliterate"
      [] route = "drain"      -> "queue:drain"
      [] route = "retryAll"   -> "queue:retryAll"
      [] route = "clean"      -> "queue:clean"

\* the retry handler calling the handle's remove
JobMethod_RetryRemoves(route) ==
    CASE route = "removeJob"  -> "remove"
      [] route = "retryJob"   -> "remove"
      [] route = "promoteJob" -> "promote"

\* the job-handle method each job mutation awaits after getJob
JobMethod(route) ==
    CASE route = "removeJob"  -> "remove"
      [] route = "retryJob"   -> "retry"
      [] route = "promoteJob" -> "promote"

\* the status token of each mutation's 200 response
StatusToken(route) ==
    CASE route = "pause"      -> "paused"
      [] route = "resume"     -> "resumed"
      [] route = "removeJob"  -> "removed"
      [] route = "retryJob"   -> "retried"
      [] route = "promoteJob" -> "promoted"
      [] route = "obliterate" -> "obliterated"
      [] route = "drain"      -> "drained"
      [] route = "retryAll"   -> "ok"
      [] route = "clean"      -> "ok"

-----------------------------------------------------------------------------
(* Responses                                                               *)

ReadOnlyMessage == "Dashboard is in read-only mode"

UnauthorizedMessage == "Unauthorized"

QueueNotFound == "Queue not found"

JobNotFound == "Job not found"

GraceMessage == "grace must be a non-negative integer (ms)"

TypeMessage == "type must be \"completed\" or \"failed\""

\* `Invalid state: ${state}. Must be one of: ${VALID_STATES.join(', ')}`
InvalidStateMessage(state) ==
    <<"Invalid state: ", state, ". Must be one of: ", VALID_STATES>>

\* res.status(status).json(body)
Write(status, body) == Append(res, [status |-> status, body |-> body])

\* res.status(status).json({ error: message })
WriteError(status, message) == Write(status, [error |-> message])

\* an engine call rejects with an Error carrying a message, or with some
\* other value
Failures ==
    { [isError |-> TRUE,  message |-> "Redis connection failed"],
      [isError |-> FALSE, message |-> "thrown value"] }

\* an error response that also carries the error's stack
safeError_WithStack(err) ==
    Write(500, [error |-> IF err.isError THEN err.message ELSE "Internal server error",
                stack |-> "Error: at Queue.getJobCounts"])

\* safeError(res, err): the Error's message, or a fixed text
safeError(err) ==
    WriteError(500, IF err.isError THEN err.message ELSE "Internal server error")

Call(target, method, args) == [target |-> target, method |-> method, args |-> args]

-----------------------------------------------------------------------------
(* Requests                                                                *)

NoQuery ==
    [state |-> None, start |-> None, end |-> None,
     name |-> None, data |-> None, limit |-> None]

NoBody ==
    [delayed |-> None, count |-> None, grace |-> None,
     limit |-> None, type |-> None]

NoReq == [route |-> "none", name |-> "", id |-> "", query |-> NoQuery, body |-> NoBody]

NoLoc ==
    [auth |-> "none", allowed |-> "none", start |-> 0, endVal |-> 0,
     getJob |-> "none", job |-> None, logs |-> None,
     counts |-> [q \in queueMap |-> None],
     jobs |-> <<>>, state |-> None, result |-> None]

\* :name of a request: a registered queue or an unknown one
RequestNames == {QueueNames[1], "nonexistent"}

\* :id of a request
JobIds == {"j1"}

\* numbers as they arrive in a JSON body, in their string conversion
GraceTexts ==
    { None, Some(<<"0">>), Some(<<"1", "0", "0", "0">>), Some(<<"-", "1">>),
      Some(<<"-", "0", ".", "5">>), Some(<<"a", "b", "c">>) }

LimitTexts ==
    { None, Some(<<"5", "0">>), Some(<<"5", "0", "0", "0">>), Some(<<"-", "3">>) }

CountTexts ==
    { None, Some(<<"0">>), Some(<<"3">>), Some(<<"-", "2">>), Some(<<"x">>) }

TypeValues == { None, Some("completed"), Some("failed"), Some("invalid") }

QueueMutationRequests ==
    { [route |-> r, name |-> n, id |-> "", query |-> NoQuery, body |-> NoBody] :
        r \in {"pause", "resume", "obliterate"}, n \in RequestNames }

JobMutationRequests ==
    { [route |-> r, name |-> n, id |-> i, query |-> NoQuery, body |-> NoBody] :
        r \in JobMutations, n \in RequestNames, i \in JobIds }

DrainRequests ==
    { [route |-> "drain", name |-> n, id |-> "", query |-> NoQuery,
       body |-> [NoBody EXCEPT !.delayed = d]] :
        n \in RequestNames, d \in {None, Some(TRUE), Some(FALSE)} }

RetryAllRequests ==
    { [route |-> "retryAll", name |-> n, id |-> "", query |-> NoQuery,
       body |-> [NoBody EXCEPT !.count = c]] :
        n \in RequestNames, c \in CountTexts }

CleanRequests ==
    { [route |-> "clean", name |-> n, id |-> "", query |-> NoQuery,
       body |-> [NoBody EXCEPT !.grace = g, !.limit = l, !.type = t]] :
        n \in RequestNames, g \in GraceTexts, l \in LimitTexts, t \in TypeValues }

MutationRequests ==
    QueueMutationRequests \cup JobMutationRequests \cup DrainRequests
        \cup RetryAllRequests \cup CleanRequests

-----------------------------------------------------------------------------
(* Construction                                                            *)

\* the event-stream connections that clients open, in this order
ConnOrder == <<"c1", "c2">>

ConnIds == Range(ConnOrder)

\* const eventNames = [...]
eventNames ==
    <<"completed", "failed", "progress", "active", "waiting", "stalled", "removed">>

\* the QueueEvents instances that exist, by name; opts.queueEvents lists
\* some of them
SourceNames == {"payments", "emails"}

\* opts.queueEvents as configured
QueueEventsSets == { <<>>, <<"payments">>, <<"payments", "emails">> }

\* a connection that has not been opened; of what is written to its
\* response the model keeps the number of frames and the last one
NoConn ==
    [status |-> "none", listeners |-> <<>>, heartbeat |-> FALSE,
     frames |-> 0, last |-> <<>>,
     cleanups |-> 0, closeSeen |-> FALSE, errorSeen |-> FALSE]

\* createDashboard(queues) or createDashboard(queues, opts); authorize is
\* TRUE when a callback is configured; the guard options and queueEvents
\* are read by different routes, so they are varied one at a time
OptionSets ==
    { [given |-> FALSE, readOnly |-> FALSE, authorize |-> FALSE, queueEvents |-> <<>>] }
    \cup
    { [given |-> TRUE, readOnly |-> ro, authorize |-> au, queueEvents |-> <<>>] :
        ro \in BOOLEAN, au \in BOOLEAN }
    \cup
    { [given |-> TRUE, readOnly |-> FALSE, authorize |-> FALSE, queueEvents |-> qe] :
        qe \in QueueEventsSets }

\* const queueEvents = opts?.queueEvents ?? []
queueEvents == IF opts.given THEN opts.queueEvents ELSE <<>>

Init ==
    /\ conns = [c \in ConnIds |-> NoConn]
    /\ emitters = [src \in SourceNames |-> [ev \in Range(eventNames) |-> <<>>]]
    /\ opts \in OptionSets
    /\ pc = "idle"
    /\ req = NoReq
    /\ loc = NoLoc
    /\ authCalls = <<>>
    /\ calls = <<>>
    /\ pending = {}
    /\ tagged = <<>>
    /\ res = <<>>
    /\ failed = <<>>

\* no request is being handled
Idle == pc = "idle"

\* the request has been answered, or its handler has thrown, and none of its
\* engine calls is still in flight: the router is ready for the next request
Finish ==
    /\ pc \in {"done", "rejected"}
    /\ pending = {}
    /\ pc' = "idle"
    /\ req' = NoReq
    /\ loc' = NoLoc
    /\ authCalls' = <<>>
    /\ calls' = <<>>
    /\ tagged' = <<>>
    /\ res' = <<>>
    /\ failed' = <<>>
    /\ UNCHANGED <<opts, pending, conns, emitters>>

-----------------------------------------------------------------------------
(* Mutation endpoints                                                      *)

\* clean: const limit = parseInt(req.body?.limit, 10) || 100;
\*        queue.clean(grace, Math.min(limit, 1000), type)
CleanArgs(r) ==
    << parseInt(r.body.grace)[1],
       Min(OrElse(parseInt(r.body.limit), 100), 1000),
       r.body.type[1] >>

\* a retry-all that hands the engine a cap whatever the count is
RetryAllArgs_AlwaysCapped(r) ==
    << Some([count |-> OrElse(parseInt(r.body.count), 0)]) >>

\* retry-all: const count = parseInt(req.body?.count, 10) || 0;
\*            queue.retryJobs(count > 0 ? { count } : undefined)
RetryAllArgs(r) ==
    LET count == OrElse(parseInt(r.body.count), 0)
    IN  IF count > 0 THEN << Some([count |-> count]) >> ELSE << None >>

\* the queue method a queue mutation awaits, with its arguments
QueueOp(r) ==
    CASE r.route = "pause"      -> Call("queue", "pause", <<>>)
      [] r.route = "resume"     -> Call("queue", "resume", <<>>)
      [] r.route = "obliterate" -> Call("queue", "obliterate", <<[force |-> TRUE]>>)
      [] r.route = "drain"      -> Call("queue", "drain", <<r.body.delayed = Some(TRUE)>>)
      [] r.route = "retryAll"   -> Call("queue", "retryJobs", RetryAllArgs(r))
      [] r.route = "clean"      -> Call("queue", "clean", CleanArgs(r))

\* clean: isNaN(grace) || grace < 0
GraceInvalid(r) ==
    LET grace == parseInt(r.body.grace)
    IN  IsNaN(grace) \/ grace[1] < 0

\* clean: type !== 'completed' && type !== 'failed'
TypeInvalid(r) == r.body.type # Some("completed") /\ r.body.type # Some("failed")

\* a mutation handler that uses queueMap.get's result without testing it: on
\* an unknown name the method call on undefined throws outside any try
AfterGuard_NoLookupTest(r) ==
    IF r.name \notin queueMap
    THEN /\ pc' = "rejected"
         /\ UNCHANGED <<res, calls, pending>>
    ELSE IF r.route \in JobMutations
    THEN /\ calls' = Append(calls, Call("queue", "getJob", <<r.id>>))
         /\ pending' = {"getJob"}
         /\ pc' = "getJob"
         /\ UNCHANGED res
    ELSE IF r.route = "clean" /\ GraceInvalid(r)
    THEN /\ res' = WriteError(400, GraceMessage)
         /\ pc' = "done"
         /\ UNCHANGED <<calls, pending>>
    ELSE IF r.route = "clean" /\ TypeInvalid(r)
    THEN /\ res' = WriteError(400, TypeMessage)
         /\ pc' = "done"
         /\ UNCHANGED <<calls, pending>>
    ELSE /\ calls' = Append(calls, QueueOp(r))
         /\ pending' = {"queueOp"}
         /\ pc' = "queueOp"
         /\ UNCHANGED res

\* a clean handler that validates its body before it looks the queue up
AfterGuard_ValidatesBeforeLookup(r) ==
    IF r.route = "clean" /\ GraceInvalid(r)
    THEN /\ res' = WriteError(400, GraceMessage)
         /\ pc' = "done"
         /\ UNCHANGED <<calls, pending>>
    ELSE IF r.route = "clean" /\ TypeInvalid(r)
    THEN /\ res' = WriteError(400, TypeMessage)
         /\ pc' = "done"
         /\ UNCHANGED <<calls, pending>>
    ELSE IF r.name \notin queueMap
    THEN /\ res' = WriteError(404, QueueNotFound)
         /\ pc' = "done"
         /\ UNCHANGED <<calls, pending>>
    ELSE IF r.route \in JobMutations
    THEN /\ calls' = Append(calls, Call("queue", "getJob", <<r.id>>))
         /\ pending' = {"getJob"}
         /\ pc' = "getJob"
         /\ UNCHANGED res
    ELSE /\ calls' = Append(calls, QueueOp(r))
         /\ pending' = {"queueOp"}
         /\ pc' = "queueOp"
         /\ UNCHANGED res

\* a clean handler that validates the type only after it has called clean
AfterGuard_CleanBeforeType(r) ==
    IF r.name \notin queueMap
    THEN /\ res' = WriteError(404, QueueNotFound)
         /\ pc' = "done"
         /\ UNCHANGED <<calls, pending>>
    ELSE IF r.route \in JobMutations
    THEN /\ calls' = Append(calls, Call("queue", "getJob", <<r.id>>))
         /\ pending' = {"getJob"}
         /\ pc' = "getJob"
         /\ UNCHANGED res
    ELSE IF r.route = "clean" /\ GraceInvalid(r)
    THEN /\ res' = WriteError(400, GraceMessage)
         /\ pc' = "done"
         /\ UNCHANGED <<calls, pending>>
    ELSE IF r.route = "clean" /\ TypeInvalid(r)
    THEN /\ calls' = Append(calls, Call("queue", "clean", <<>>))
         /\ res' = WriteError(400, TypeMessage)
         /\ pc' = "done"
         /\ UNCHANGED pending
    ELSE /\ calls' = Append(calls, QueueOp(r))
         /\ pending' = {"queueOp"}
         /\ pc' = "queueOp"
         /\ UNCHANGED res

\* a mutation handler from the return of guardMutation to its first engine
\* call: registry lookup, validation of the clean body, then the call
AfterGuard(r) ==
    IF r.name \notin queueMap
    THEN /\ res' = WriteError(404, QueueNotFound)
         /\ pc' = "done"
         /\ UNCHANGED <<calls, pending>>
    ELSE IF r.route \in JobMutations
    THEN /\ calls' = Append(calls, Call("queue", "getJob", <<r.id>>))
         /\ pending' = {"getJob"}
         /\ pc' = "getJob"
         /\ UNCHANGED res
    ELSE IF r.route = "clean" /\ GraceInvalid(r)
    THEN /\ res' = WriteError(400, GraceMessage)
         /\ pc' = "done"
         /\ UNCHANGED <<calls, pending>>
    ELSE IF r.route = "clean" /\ TypeInvalid(r)
    THEN /\ res' = WriteError(400, TypeMessage)
         /\ pc' = "done"
         /\ UNCHANGED <<calls, pending>>
    ELSE /\ calls' = Append(calls, QueueOp(r))
         /\ pending' = {"queueOp"}
         /\ pc' = "queueOp"
         /\ UNCHANGED res

\* what the authorize callback does when it is called: it returns a boolean,
\* returns a promise, or throws
AuthorizeBehaviours == {"true", "false", "promise", "throw"}

\* how `await opts.authorize(req, action)` can end for each behaviour
AuthorizeOutcomes(behaviour) ==
    CASE behaviour = "true"    -> {"allow"}
      [] behaviour = "false"   -> {"deny"}
      [] behaviour = "throw"   -> {"reject"}
      [] behaviour = "promise" -> {"allow", "deny", "reject"}

\* a request for a mutation route arrives
MutationRequest(r) ==
    /\ Idle
    /\ req' = r
    /\ pc' = "guard"
    /\ UNCHANGED <<opts, loc, authCalls, calls, pending, tagged, res,
                   failed, conns, emitters>>

\* guardMutation without its readOnly test
guardMutation_IgnoresReadOnly ==
    /\ pc = "guard"
    /\ IF opts.given /\ opts.authorize
       THEN /\ authCalls' = Append(authCalls, ActionTag(req.route))
            /\ \E b \in AuthorizeBehaviours : loc' = [loc EXCEPT !.auth = b]
            /\ pc' = "authorize"
            /\ UNCHANGED <<res, calls, pending>>
       ELSE /\ AfterGuard(req)
            /\ UNCHANGED <<loc, authCalls>>
    /\ UNCHANGED <<opts, req, tagged, failed, conns, emitters>>

\* guardMutation with its two tests in the other order: readOnly is looked
\* at only when no authorize callback is configured
guardMutation_AuthorizeFirst ==
    /\ pc = "guard"
    /\ IF opts.given /\ opts.authorize
       THEN /\ authCalls' = Append(authCalls, ActionTag(req.route))
            /\ \E b \in AuthorizeBehaviours : loc' = [loc EXCEPT !.auth = b]
            /\ pc' = "authorize"
            /\ UNCHANGED <<res, calls, pending>>
       ELSE IF opts.given /\ opts.readOnly
       THEN /\ res' = WriteError(403, ReadOnlyMessage)
            /\ pc' = "done"
            /\ UNCHANGED <<loc, authCalls, calls, pending>>
       ELSE /\ AfterGuard(req)
            /\ UNCHANGED <<loc, authCalls>>
    /\ UNCHANGED <<opts, req, tagged, failed, conns, emitters>>

\* guardMutation that refuses when no options object was passed
guardMutation_RequiresOptions ==
    /\ pc = "guard"
    /\ IF ~opts.given \/ opts.readOnly
       THEN /\ res' = WriteError(403, ReadOnlyMessage)
            /\ pc' = "done"
            /\ UNCHANGED <<loc, authCalls, calls, pending>>
       ELSE IF opts.authorize
       THEN /\ authCalls' = Append(authCalls, ActionTag(req.route))
            /\ \E b \in AuthorizeBehaviours : loc' = [loc EXCEPT !.auth = b]
            /\ pc' = "authorize"
            /\ UNCHANGED <<res, calls, pending>>
       ELSE /\ AfterGuard(req)
            /\ UNCHANGED <<loc, authCalls>>
    /\ UNCHANGED <<opts, req, tagged, failed, conns, emitters>>

\* guardMutation up to its first suspension; when it returns true without
\* suspending, the handler goes on
guardMutation ==
    /\ pc = "guard"
    /\ IF opts.given /\ opts.readOnly
       THEN /\ res' = WriteError(403, ReadOnlyMessage)
            /\ pc' = "done"
            /\ UNCHANGED <<loc, authCalls, calls, pending>>
       ELSE IF opts.given /\ opts.authorize
       THEN /\ authCalls' = Append(authCalls, ActionTag(req.route))
            /\ \E b \in AuthorizeBehaviours : loc' = [loc EXCEPT !.auth = b]
            /\ pc' = "authorize"
            /\ UNCHANGED <<res, calls, pending>>
       ELSE /\ AfterGuard(req)
            /\ UNCHANGED <<loc, authCalls>>
    /\ UNCHANGED <<opts, req, tagged, failed, conns, emitters>>

\* the guard going on to the handler whatever authorize resolved to
AuthorizeSettle_DenyProceeds ==
    /\ pc = "authorize"
    /\ \E outcome \in AuthorizeOutcomes(loc.auth) :
        /\ loc' = [loc EXCEPT !.allowed = outcome]
        /\ CASE outcome = "reject" ->
                    /\ pc' = "rejected"
                    /\ UNCHANGED <<res, calls, pending>>
             [] OTHER ->
                    AfterGuard(req)
    /\ UNCHANGED <<opts, req, authCalls, tagged, failed, conns, emitters>>

\* a guard that looks the queue up before it answers a denial
AuthorizeSettle_LookupBeforeDeny ==
    /\ pc = "authorize"
    /\ \E outcome \in AuthorizeOutcomes(loc.auth) :
        /\ loc' = [loc EXCEPT !.allowed = outcome]
        /\ CASE outcome = "deny" ->
                    /\ res' = IF req.name \in queueMap
                              THEN WriteError(403, UnauthorizedMessage)
                              ELSE WriteError(404, QueueNotFound)
                    /\ pc' = "done"
                    /\ UNCHANGED <<calls, pending>>
             [] outcome = "reject" ->
                    /\ pc' = "rejected"
                    /\ UNCHANGED <<res, calls, pending>>
             [] outcome = "allow" ->
                    AfterGuard(req)
    /\ UNCHANGED <<opts, req, authCalls, tagged, failed, conns, emitters>>

\* `await opts.authorize(req, action)` ends: denied, allowed, or thrown out
\* of guardMutation and of the handler, which has no try around the guard
AuthorizeSettle ==
    /\ pc = "authorize"
    /\ \E outcome \in AuthorizeOutcomes(loc.auth) :
        /\ loc' = [loc EXCEPT !.allowed = outcome]
        /\ CASE outcome = "deny" ->
                    /\ res' = WriteError(403, UnauthorizedMessage)
                    /\ pc' = "done"
                    /\ UNCHANGED <<calls, pending>>
             [] outcome = "reject" ->
                    /\ pc' = "rejected"
                    /\ UNCHANGED <<res, calls, pending>>
             [] outcome = "allow" ->
                    AfterGuard(req)
    /\ UNCHANGED <<opts, req, authCalls, tagged, failed, conns, emitters>>

-----------------------------------------------------------------------------
(* Engine results                                                          *)

\* the latest creation timestamp of a job
MaxTimestamp == 1

Timestamps == 0..MaxTimestamp

\* a Job as the engine hands it out: data fields and the handle's methods
Jobs == [id : JobIds, timestamp : Timestamps, handle : {TRUE}]

\* serializeJob(j): the data fields only
serializeJob(j) == [id |-> j.id, timestamp |-> j.timestamp]

\* what retryJobs resolves to
RetriedCounts == {0, 5}

\* what clean resolves to: the ids it removed
RemovedIds == { <<>>, <<"1", "2">> }

\* the 200 body of a queue mutation, from what the engine call resolved to
QueueOpBody(route, value) ==
    CASE route = "retryAll" -> [status |-> StatusToken(route), retried |-> value]
      [] route = "clean"    -> [status |-> StatusToken(route), removed |-> Len(value)]
      [] OTHER              -> [status |-> StatusToken(route)]

\* what the awaited queue method of a queue mutation can resolve to
QueueOpValues(route) ==
    CASE route = "retryAll" -> RetriedCounts
      [] route = "clean"    -> RemovedIds
      [] OTHER              -> {None}

\* pause, resume, obliterate, drain, retryJobs or clean settles; `result` is
\* what it resolved to (`retried`, `removed`)
QueueOpSettle ==
    /\ pc = "queueOp"
    /\ pending' = {}
    /\ pc' = "done"
    /\ \/ /\ \E v \in QueueOpValues(req.route) :
                /\ loc' = [loc EXCEPT !.result = Some(v)]
                /\ res' = Write(200, QueueOpBody(req.route, v))
          /\ UNCHANGED failed
       \/ /\ \E err \in Failures : res' = safeError(err) /\ failed' = Append(failed, err)
          /\ UNCHANGED loc
    /\ UNCHANGED <<opts, req, authCalls, calls, tagged, conns, emitters>>

\* queue.getJob(jobId) settles in a job mutation: the job's method is called
JobMutationGetJobSettle ==
    /\ pc = "getJob"
    /\ req.route \in JobMutations
    /\ \/ \E j \in Jobs :
            /\ j.id = req.id
            /\ loc' = [loc EXCEPT !.getJob = "job", !.job = Some(j)]
            /\ calls' = Append(calls, Call("job", JobMethod(req.route), <<>>))
            /\ pending' = {"jobOp"}
            /\ pc' = "jobOp"
            /\ UNCHANGED <<res, failed>>
       \/ /\ loc' = [loc EXCEPT !.getJob = "null"]
          /\ res' = WriteError(404, JobNotFound)
          /\ pending' = {}
          /\ pc' = "done"
          /\ UNCHANGED <<calls, failed>>
       \/ \E err \in Failures :
            /\ loc' = [loc EXCEPT !.getJob = "failed"]
            /\ res' = safeError(err)
            /\ failed' = Append(failed, err)
            /\ pending' = {}
            /\ pc' = "done"
            /\ UNCHANGED calls
    /\ UNCHANGED <<opts, req, authCalls, tagged, conns, emitters>>

\* job.remove(), job.retry() or job.promote() settles
JobOpSettle ==
    /\ pc = "jobOp"
    /\ pending' = {}
    /\ pc' = "done"
    /\ \/ res' = Write(200, [status |-> StatusToken(req.route)]) /\ UNCHANGED failed
       \/ \E err \in Failures : res' = safeError(err) /\ failed' = Append(failed, err)
    /\ UNCHANGED <<opts, req, loc, authCalls, calls, tagged, conns, emitters>>

-----------------------------------------------------------------------------
(* Read requests                                                           *)

ReadRoutes == {"jobs", "job", "workers", "schedulers", "dlq", "metrics", "search"}

\* ?state= of a listing
StateValues ==
    { None, Some(""), Some("invalid") } \cup { Some(VALID_STATES[i]) : i \in 1..5 }

\* ?start= and ?end=
StartTexts == { None, Some(<<"1">>), Some(<<"-", "5">>), Some(<<"a", "b", "c">>) }

EndTexts ==
    { None, Some(<<"1">>), Some(<<"2">>), Some(<<"-", "1">>),
      Some(<<"9", "9", "9", "9", "9">>) }

\* ?limit= of a search
SearchLimitTexts ==
    { None, Some(<<"1", "0">>), Some(<<"0">>), Some(<<"-", "4">>),
      Some(<<"2", "0", "1">>), Some(<<"x">>) }

\* ?data= of a search: JSON texts and texts JSON.parse throws on
DataTexts == { None, Some(<<>>), Some(<<"{", "}">>), Some(<<"{">>), Some(<<"1">>) }

\* ?name= of a search
SearchNames == { None, Some(""), Some("charge") }

\* listing requests whose ?start= and ?end= are drawn from the given texts
JobsRequestsOver(states, starts, ends) ==
    { [route |-> "jobs", name |-> n, id |-> "",
       query |-> [NoQuery EXCEPT !.state = st, !.start = a, !.end = b],
       body |-> NoBody] :
        n \in RequestNames, st \in states, a \in starts, b \in ends }

\* listings with every state value and the default window
JobsRequests == JobsRequestsOver(StateValues, {None}, {None})

DlqRequests ==
    { [route |-> "dlq", name |-> n, id |-> "",
       query |-> [NoQuery EXCEPT !.start = a, !.end = b], body |-> NoBody] :
        n \in RequestNames, a \in StartTexts, b \in EndTexts }

JobRequests ==
    { [route |-> "job", name |-> n, id |-> i, query |-> NoQuery, body |-> NoBody] :
        n \in RequestNames, i \in JobIds }

PlainReadRequests ==
    { [route |-> r, name |-> n, id |-> "", query |-> NoQuery, body |-> NoBody] :
        r \in {"workers", "schedulers", "metrics"}, n \in RequestNames }

SearchRequests ==
    { [route |-> "search", name |-> n, id |-> "",
       query |-> [NoQuery EXCEPT !.state = st, !.name = qn, !.data = d, !.limit = l],
       body |-> NoBody] :
        n \in RequestNames, st \in {None, Some("invalid"), Some("waiting")},
        qn \in SearchNames, d \in DataTexts, l \in SearchLimitTexts }

\* GET /api/queues takes no parameter
QueuesRequests ==
    { [route |-> "queues", name |-> "", id |-> "", query |-> NoQuery, body |-> NoBody] }

ReadRequests ==
    JobsRequests \cup DlqRequests \cup JobRequests \cup PlainReadRequests
        \cup SearchRequests \cup QueuesRequests

\* a read handler that opens with the mutation guard
ReadRequest_Guarded(r) ==
    /\ Idle
    /\ req' = r
    /\ pc' = "guard"
    /\ UNCHANGED <<opts, loc, authCalls, calls, pending, tagged, res,
                   failed, conns, emitters>>

\* a request for a read route arrives
ReadRequest(r) ==
    /\ Idle
    /\ req' = r
    /\ pc' = "handler"
    /\ UNCHANGED <<opts, loc, authCalls, calls, pending, tagged, res,
                   failed, conns, emitters>>

-----------------------------------------------------------------------------
(* GET /api/queues/:name/jobs                                              *)

\* the most jobs the engine hands out for one request
MaxJobs == 2

SeqsUpTo(S, n) == UNION { [1..k -> S] : k \in 0..n }

\* what getJobs, getDeadLetterJobs or searchJobs can resolve to when the
\* request has already been handed `have` jobs
JobLists(have) == SeqsUpTo(Jobs, MaxJobs - have)

\* a JavaScript string used as a condition: undefined and '' are falsy
Truthy(v) == v # None /\ v[1] # ""

\* a membership test that lets every string through
IsValidState_AnyString(state) == state = state

\* VALID_STATES.includes(state)
IsValidState(state) == \E i \in 1..Len(VALID_STATES) : VALID_STATES[i] = state

\* jobs.map((j) => ({ ...serializeJob(j), state }))
Tag(jobs, state) ==
    [i \in 1..Len(jobs) |->
        [id |-> jobs[i].id, timestamp |-> jobs[i].timestamp, state |-> state]]

\* the getJobs call of each state, in the order VALID_STATES.map issues them
FetchCalls(endVal) ==
    [i \in 1..Len(VALID_STATES) |-> Call("queue", "getJobs", <<VALID_STATES[i], 0, endVal>>)]

\* the handler up to its first suspension: lookup, validation of the state,
\* the window, then one getJobs call or one per state
JobsHandler ==
    /\ pc = "handler"
    /\ req.route = "jobs"
    /\ LET state  == req.query.state
           start  == PageStart(req.query.start)
           endVal == PageEndVal(req.query.start, req.query.end)
       IN  IF req.name \notin queueMap
           THEN /\ res' = WriteError(404, QueueNotFound)
                /\ pc' = "done"
                /\ UNCHANGED <<loc, calls, pending>>
           ELSE IF Truthy(state) /\ ~IsValidState(state[1])
           THEN /\ res' = WriteError(400, InvalidStateMessage(state[1]))
                /\ pc' = "done"
                /\ UNCHANGED <<loc, calls, pending>>
           ELSE IF Truthy(state)
           THEN /\ loc' = [loc EXCEPT !.start = start, !.endVal = endVal]
                /\ calls' = Append(calls, Call("queue", "getJobs", <<state[1], start, endVal>>))
                /\ pending' = {"getJobs"}
                /\ pc' = "getJobs"
                /\ UNCHANGED res
           ELSE /\ loc' = [loc EXCEPT !.start = start, !.endVal = endVal]
                /\ calls' = calls \o FetchCalls(endVal)
                /\ pending' = Range(VALID_STATES)
                /\ pc' = "fetchAll"
                /\ UNCHANGED res
    /\ UNCHANGED <<opts, req, authCalls, tagged, failed, conns, emitters>>

\* a listing with a state that sorts what the engine returned, newest first
GetJobsBody_Sorted(jobs, state) == SortByTs(Tag(jobs, state))

\* a listing with a state that slices what the engine returned to its window
GetJobsBody_Sliced(jobs, state) == Slice(Tag(jobs, state), loc.start, loc.endVal)

\* res.json(jobs.map((j) => ({ ...serializeJob(j), state })))
GetJobsBody(jobs, state) == Tag(jobs, state)

\* the single getJobs of a listing with a state settles; `jobs` is what it
\* resolved to
GetJobsSettle ==
    /\ pc = "getJobs"
    /\ pending' = {}
    /\ pc' = "done"
    /\ \/ /\ \E jobs \in JobLists(0) :
                /\ loc' = [loc EXCEPT !.jobs = jobs]
                /\ res' = Write(200, GetJobsBody(jobs, req.query.state[1]))
          /\ UNCHANGED failed
       \/ /\ \E err \in Failures : res' = safeError(err) /\ failed' = Append(failed, err)
          /\ UNCHANGED loc
    /\ UNCHANGED <<opts, req, authCalls, calls, tagged, conns, emitters>>

\* tagged.sort(...); res.json(tagged.slice(start, endVal))
ListingBody(all, start, endVal) == Slice(SortByTs(all), start, endVal)

\* the getJobs of state s settles while Promise.all is awaited: its jobs are
\* pushed onto tagged; the last one to resolve lets the handler sort, slice
\* and answer; the first one to reject makes Promise.all reject, and the
\* handler answers 500 and never reads tagged again
FetchSettle(s) ==
    /\ pc = "fetchAll"
    /\ s \in pending
    /\ pending' = pending \ {s}
    /\ \/ \E jobs \in JobLists(Len(tagged)) :
            /\ tagged' = tagged \o Tag(jobs, s)
            /\ UNCHANGED failed
            /\ IF pending' = {}
               THEN /\ res' = Write(200, ListingBody(tagged', loc.start, loc.endVal))
                    /\ pc' = "done"
               ELSE UNCHANGED <<res, pc>>
       \/ \E err \in Failures :
            /\ res' = safeError(err)
            /\ failed' = Append(failed, err)
            /\ tagged' = <<>>
            /\ pc' = "done"
    /\ UNCHANGED <<opts, req, loc, authCalls, calls, conns, emitters>>

\* an engine call that Promise.all no longer waits for settles after the
\* response; what it resolves to is never read
LateSettle(s) ==
    /\ pc = "done"
    /\ s \in pending
    /\ pending' = pending \ {s}
    /\ \/ UNCHANGED failed
       \/ \E err \in Failures : failed' = Append(failed, err)
    /\ UNCHANGED <<opts, pc, req, loc, authCalls, calls, tagged, res,
                   conns, emitters>>

-----------------------------------------------------------------------------
(* GET /api/queues/:name/job/:id                                           *)

\* what getJobLogs resolves to
LogResults == { [logs |-> <<>>, count |-> 0], [logs |-> <<"log1", "log2">>, count |-> 2] }

\* the handler up to its first suspension: lookup, then getJob
JobHandler ==
    /\ pc = "handler"
    /\ req.route = "job"
    /\ IF req.name \notin queueMap
       THEN /\ res' = WriteError(404, QueueNotFound)
            /\ pc' = "done"
            /\ UNCHANGED <<calls, pending>>
       ELSE /\ calls' = Append(calls, Call("queue", "getJob", <<req.id>>))
            /\ pending' = {"getJob"}
            /\ pc' = "getJob"
            /\ UNCHANGED res
    /\ UNCHANGED <<opts, req, loc, authCalls, tagged, failed, conns, emitters>>

\* queue.getJob(jobId) settles: no job is a 404, a job leads to getJobLogs
JobGetJobSettle ==
    /\ pc = "getJob"
    /\ req.route = "job"
    /\ \/ \E j \in Jobs :
            /\ j.id = req.id
            /\ loc' = [loc EXCEPT !.getJob = "job", !.job = Some(j)]
            /\ calls' = Append(calls, Call("queue", "getJobLogs", <<req.id>>))
            /\ pending' = {"getJobLogs"}
            /\ pc' = "getJobLogs"
            /\ UNCHANGED <<res, failed>>
       \/ /\ loc' = [loc EXCEPT !.getJob = "null"]
          /\ res' = WriteError(404, JobNotFound)
          /\ pending' = {}
          /\ pc' = "done"
          /\ UNCHANGED <<calls, failed>>
       \/ \E err \in Failures :
            /\ loc' = [loc EXCEPT !.getJob = "failed"]
            /\ res' = safeError(err)
            /\ failed' = Append(failed, err)
            /\ pending' = {}
            /\ pc' = "done"
            /\ UNCHANGED calls
    /\ UNCHANGED <<opts, req, authCalls, tagged, conns, emitters>>

\* queue.getJobLogs(jobId) settles: job.getState() is called next
GetJobLogsSettle ==
    /\ pc = "getJobLogs"
    /\ \/ \E l \in LogResults :
            /\ loc' = [loc EXCEPT !.logs = Some(l)]
            /\ calls' = Append(calls, Call("job", "getState", <<>>))
            /\ pending' = {"getState"}
            /\ pc' = "getState"
            /\ UNCHANGED <<res, failed>>
       \/ \E err \in Failures :
            /\ res' = safeError(err)
            /\ failed' = Append(failed, err)
            /\ pending' = {}
            /\ pc' = "done"
            /\ UNCHANGED <<loc, calls>>
    /\ UNCHANGED <<opts, req, authCalls, tagged, conns, emitters>>

\* a single-job response that leaves the log lines out
JobBody_NoLogs(job, state, logs) ==
    [id |-> job.id, timestamp |-> job.timestamp, state |-> state, logs |-> <<>>]

\* res.json({ ...serializeJob(job), state, logs: logs.logs })
JobBody(job, state, logs) ==
    [id |-> job.id, timestamp |-> job.timestamp, state |-> state, logs |-> logs.logs]

\* job.getState() settles; `state` is what it resolved to
GetStateSettle ==
    /\ pc = "getState"
    /\ pending' = {}
    /\ pc' = "done"
    /\ \/ /\ \E st \in Range(VALID_STATES) :
                /\ loc' = [loc EXCEPT !.state = Some(st)]
                /\ res' = Write(200, JobBody(loc.job[1], st, loc.logs[1]))
          /\ UNCHANGED failed
       \/ /\ \E err \in Failures : res' = safeError(err) /\ failed' = Append(failed, err)
          /\ UNCHANGED loc
    /\ UNCHANGED <<opts, req, authCalls, calls, tagged, conns, emitters>>

-----------------------------------------------------------------------------
(* GET workers, schedulers, dlq, search: lookup, one engine call, the      *)
(* result serialized                                                       *)

\* JSON texts that JSON.parse accepts, among the texts the requests carry
JsonTexts == { <<"{", "}">>, <<"1">> }

\* JSON.parse(text): the value the text denotes, or None when it throws
JSONparse(text) ==
    CASE text = <<"{", "}">> -> Some([type |-> "object", number |-> 0])
      [] text = <<"1">>      -> Some([type |-> "number", number |-> 1])
      [] OTHER               -> None

\* a search handler that passes the state filter on as it came
SearchOpts_KeepsState(q) ==
    [ state |-> IF Truthy(q.state) THEN q.state ELSE None,
      name  |-> IF Truthy(q.name) THEN q.name ELSE None,
      data  |-> IF q.data # None /\ q.data[1] # <<>> /\ q.data[1] \in JsonTexts
                THEN JSONparse(q.data[1]) ELSE None,
      limit |-> Min(OrElse(parseInt(q.limit), 50), MAX_PAGE_SIZE) ]

\* searchOpts as the search handler builds it; an absent field is None, and
\* so is data when JSON.parse throws
SearchOpts(q) ==
    [ state |-> IF Truthy(q.state) /\ IsValidState(q.state[1]) THEN q.state ELSE None,
      name  |-> IF Truthy(q.name) THEN q.name ELSE None,
      data  |-> IF q.data # None /\ q.data[1] # <<>> /\ q.data[1] \in JsonTexts
                THEN JSONparse(q.data[1]) ELSE None,
      limit |-> Min(OrElse(parseInt(q.limit), 50), MAX_PAGE_SIZE) ]

\* the engine call of each one-call read route
ReadCall(r) ==
    CASE r.route = "workers"    -> Call("queue", "getWorkers", <<>>)
      [] r.route = "schedulers" -> Call("queue", "getRepeatableJobs", <<>>)
      [] r.route = "dlq"        ->
            Call("queue", "getDeadLetterJobs",
                 <<PageStart(r.query.start), PageEndVal(r.query.start, r.query.end)>>)
      [] r.route = "search"     -> Call("queue", "searchJobs", <<SearchOpts(r.query)>>)

OneCallRoutes == {"workers", "schedulers", "dlq", "search"}

\* what the engine call of a one-call read route resolves to
ReadValues(route) ==
    CASE route = "workers"    -> { <<>>, <<[id |-> "w1"]>> }
      [] route = "schedulers" -> { <<>>, <<[name |-> "daily"]>> }
      [] route = "dlq"        -> JobLists(0)
      [] route = "search"     -> JobLists(0)

\* res.json(workers), res.json(schedulers), res.json(jobs.map(serializeJob))
ReadBody(route, value) ==
    IF route \in {"dlq", "search"}
    THEN [i \in 1..Len(value) |-> serializeJob(value[i])]
    ELSE value

OneCallHandler ==
    /\ pc = "handler"
    /\ req.route \in OneCallRoutes
    /\ IF req.name \notin queueMap
       THEN /\ res' = WriteError(404, QueueNotFound)
            /\ pc' = "done"
            /\ UNCHANGED <<calls, pending>>
       ELSE /\ calls' = Append(calls, ReadCall(req))
            /\ pending' = {"read"}
            /\ pc' = "read"
            /\ UNCHANGED res
    /\ UNCHANGED <<opts, req, loc, authCalls, tagged, failed, conns, emitters>>

OneCallSettle ==
    /\ pc = "read"
    /\ pending' = {}
    /\ pc' = "done"
    /\ \/ /\ \E v \in ReadValues(req.route) : res' = Write(200, ReadBody(req.route, v))
          /\ UNCHANGED failed
       \/ \E err \in Failures : res' = safeError(err) /\ failed' = Append(failed, err)
    /\ UNCHANGED <<opts, req, loc, authCalls, calls, tagged, conns, emitters>>

-----------------------------------------------------------------------------
(* GET /api/queues/:name/metrics                                           *)

MetricTypes == <<"completed", "failed">>

\* what getMetrics resolves to
MetricCounts == {5, 100}

\* lookup, then both getMetrics calls, awaited together
MetricsHandler ==
    /\ pc = "handler"
    /\ req.route = "metrics"
    /\ IF req.name \notin queueMap
       THEN /\ res' = WriteError(404, QueueNotFound)
            /\ pc' = "done"
            /\ UNCHANGED <<calls, pending>>
       ELSE /\ calls' = calls \o
                    [i \in 1..2 |-> Call("queue", "getMetrics", <<MetricTypes[i]>>)]
            /\ pending' = Range(MetricTypes)
            /\ pc' = "metrics"
            /\ UNCHANGED res
    /\ UNCHANGED <<opts, req, loc, authCalls, tagged, failed, conns, emitters>>

\* the count of metric type t among the results gathered so far
CountOf(results, t) == (CHOOSE p \in Range(results) : p[1] = t)[2]

\* getMetrics(t) settles while Promise.all is awaited; results gather in
\* tagged, as <<type, count>>
MetricsSettle(t) ==
    /\ pc = "metrics"
    /\ t \in pending
    /\ pending' = pending \ {t}
    /\ \/ \E c \in MetricCounts :
            /\ tagged' = Append(tagged, <<t, c>>)
            /\ UNCHANGED failed
            /\ IF pending' = {}
               THEN /\ res' = Write(200, [completed |-> CountOf(tagged', "completed"),
                                          failed |-> CountOf(tagged', "failed")])
                    /\ pc' = "done"
               ELSE UNCHANGED <<res, pc>>
       \/ \E err \in Failures :
            /\ res' = safeError(err)
            /\ failed' = Append(failed, err)
            /\ tagged' = <<>>
            /\ pc' = "done"
    /\ UNCHANGED <<opts, req, loc, authCalls, calls, conns, emitters>>

-----------------------------------------------------------------------------
(* GET /api/queues                                                         *)

\* what getJobCounts resolves to
JobCounts ==
    { [waiting |-> 5, active |-> 2, delayed |-> 1, completed |-> 10, failed |-> 3],
      [waiting |-> 0, active |-> 0, delayed |-> 0, completed |-> 0, failed |-> 0] }

\* the pending call of queue q's mapper
CountsCall(q) == q \o ".getJobCounts"

PausedCall(q) == q \o ".isPaused"

\* queues.map(async (q) => ...): every mapper runs up to its first await,
\* so getJobCounts is called on every queue, in registry order
QueuesHandler ==
    /\ pc = "handler"
    /\ req.route = "queues"
    /\ calls' = calls \o [i \in 1..Len(QueueNames) |-> Call(QueueNames[i], "getJobCounts", <<>>)]
    /\ pending' = { CountsCall(q) : q \in queueMap }
    /\ pc' = "queues"
    /\ UNCHANGED <<opts, req, loc, authCalls, tagged, res, failed, conns,
                   emitters>>

\* the {name, counts, paused} entry of queue q among the mappers' results
EntryOf(results, q) == CHOOSE e \in Range(results) : e.name = q

\* the entries in the order in which the mappers returned them
QueuesBody_CompletionOrder(results) == results

\* Promise.all resolves to the mappers' results in the order of `queues`
QueuesBody(results) == [i \in 1..Len(QueueNames) |-> EntryOf(results, QueueNames[i])]

\* q.getJobCounts() settles: the mapper of q goes on to q.isPaused(), also
\* when the response has already been written; a rejection rejects the
\* mapper, and the first mapper to reject makes Promise.all reject
QueueCountsSettle(q) ==
    /\ pc \in {"queues", "done"}
    /\ CountsCall(q) \in pending
    /\ \/ \E c \in JobCounts :
            /\ loc' = [loc EXCEPT !.counts[q] = Some(c)]
            /\ calls' = Append(calls, Call(q, "isPaused", <<>>))
            /\ pending' = (pending \ {CountsCall(q)}) \cup {PausedCall(q)}
            /\ UNCHANGED <<pc, res, tagged, failed>>
       \/ \E err \in Failures :
            /\ pending' = pending \ {CountsCall(q)}
            /\ failed' = Append(failed, err)
            /\ IF pc = "queues"
               THEN /\ res' = safeError(err)
                    /\ tagged' = <<>>
                    /\ pc' = "done"
               ELSE UNCHANGED <<res, tagged, pc>>
            /\ UNCHANGED <<loc, calls>>
    /\ UNCHANGED <<opts, req, authCalls, conns, emitters>>

\* q.isPaused() settles: the mapper of q returns its entry; the last mapper
\* to return lets the handler answer
QueuePausedSettle(q) ==
    /\ pc \in {"queues", "done"}
    /\ PausedCall(q) \in pending
    /\ pending' = pending \ {PausedCall(q)}
    /\ \/ \E paused \in BOOLEAN :
            /\ UNCHANGED failed
            /\ IF pc = "queues"
               THEN /\ tagged' = Append(tagged, [name |-> q, counts |-> loc.counts[q][1],
                                                 paused |-> paused])
                    /\ IF pending' = {}
                       THEN /\ res' = Write(200, QueuesBody(tagged'))
                            /\ pc' = "done"
                       ELSE UNCHANGED <<res, pc>>
               ELSE UNCHANGED <<res, tagged, pc>>
       \/ \E err \in Failures :
            /\ failed' = Append(failed, err)
            /\ IF pc = "queues"
               THEN /\ res' = safeError(err)
                    /\ tagged' = <<>>
                    /\ pc' = "done"
               ELSE UNCHANGED <<res, tagged, pc>>
    /\ UNCHANGED <<opts, req, loc, authCalls, calls, conns, emitters>>

-----------------------------------------------------------------------------
(* GET /api/events                                                         *)

restVars == <<pc, req, loc, authCalls, calls, pending, tagged, res, failed>>

\* the most frames written to one connection after its priming line
MaxFrames == 1

\* what an upstream source hands to its listeners
Payloads == {"p1"}

\* res.write(frame) on a connection's response
WriteFrame(conn, frame) == [conn EXCEPT !.frames = @ + 1, !.last = frame]

\* res.write of each frame of fs, in order
RECURSIVE WriteFrames(_, _)
WriteFrames(conn, fs) ==
    IF fs = <<>> THEN conn ELSE WriteFrames(WriteFrame(conn, Head(fs)), Tail(fs))

\* res.write('\n')
PrimingLine == <<"\n">>

\* res.write(': heartbeat\n\n')
HeartbeatFrame == <<": heartbeat\n\n">>

\* res.write(`data: ${JSON.stringify({ queue, event, payload })}\n\n`)
DataFrame(queue, event, payload) ==
    <<"data: ", [queue |-> queue, event |-> event, payload |-> payload], "\n\n">>

\* a handler registration that leaves the last event name out
ListenersOf_SixEvents(sources) ==
    [k \in 1..(Len(sources) * (Len(eventNames) - 1)) |->
        [qe    |-> sources[((k - 1) \div (Len(eventNames) - 1)) + 1],
         event |-> eventNames[((k - 1) % (Len(eventNames) - 1)) + 1]]]

\* the `listeners` array a connection builds: one entry per source of
\* queueEvents and event name, sources outermost
ListenersOf(sources) ==
    [k \in 1..(Len(sources) * Len(eventNames)) |->
        [qe    |-> sources[((k - 1) \div Len(eventNames)) + 1],
         event |-> eventNames[((k - 1) % Len(eventNames)) + 1]]]

\* the handler closure created for entry k of connection c
Handler(c, k) == <<c, k>>

\* qe.on(eventName, handler), for every entry of the connection's listeners
Subscribe(em, c, ls) ==
    [src \in SourceNames |-> [ev \in Range(eventNames) |->
        em[src][ev] \o
            [j \in 1..Cardinality({k \in 1..Len(ls) : ls[k].qe = src /\ ls[k].event = ev}) |->
                Handler(c, CHOOSE k \in 1..Len(ls) : ls[k].qe = src /\ ls[k].event = ev)]]]

\* a removeListener that finds no handler to remove (the connection hands
\* over a function other than the one it registered)
RemoveListener_FindsNothing(hs, h) == hs

\* qe.removeListener(event, handler): the handler leaves the list; no
\* effect when it is not in it
RemoveListener(hs, h) == SelectSeq(hs, LAMBDA x : x # h)

\* a cleanup that empties the listener list of every event it registered
\* on (removeAllListeners(event))
Unsubscribe_AllListeners(em, c, ls) ==
    [src \in SourceNames |-> [ev \in Range(eventNames) |->
        IF \E k \in 1..Len(ls) : ls[k].qe = src /\ ls[k].event = ev
        THEN <<>>
        ELSE em[src][ev]]]

\* the for loop of cleanup(): removeListener for every entry of listeners
Unsubscribe(em, c, ls) ==
    [src \in SourceNames |-> [ev \in Range(eventNames) |->
        IF \E k \in 1..Len(ls) : ls[k].qe = src /\ ls[k].event = ev
        THEN RemoveListener(em[src][ev],
                            Handler(c, CHOOSE k \in 1..Len(ls) :
                                            ls[k].qe = src /\ ls[k].event = ev))
        ELSE em[src][ev]]]

\* a client opens the stream: the handler runs to its end without
\* suspending: headers, priming line, one handler per source and event
\* name, the heartbeat timer, the close and error listeners
Connect(c) ==
    /\ conns[c].status = "none"
    /\ \A i, j \in 1..Len(ConnOrder) :
          (i < j /\ ConnOrder[j] = c) => conns[ConnOrder[i]].status # "none"
    /\ LET ls == ListenersOf(queueEvents)
       IN  /\ conns' = [conns EXCEPT ![c] =
                    WriteFrame([NoConn EXCEPT !.status = "streaming", !.listeners = ls,
                                              !.heartbeat = TRUE],
                               PrimingLine)]
           /\ emitters' = Subscribe(emitters, c, ls)
    /\ UNCHANGED <<opts, restVars>>

\* the frames the handlers in hs write to connection c, in call order
FramesFor(hs, c, payload) ==
    LET mine == SelectSeq(hs, LAMBDA h : h[1] = c)
    IN  [j \in 1..Len(mine) |->
            DataFrame(conns[c].listeners[mine[j][2]].qe,
                      conns[c].listeners[mine[j][2]].event, payload)]

\* source src emits event ev: every handler in its listener list is called
\* with the payload, and writes one frame to its own response
Emit(src, ev, payload) ==
    /\ emitters[src][ev] # <<>>
    /\ \A c \in ConnIds :
          conns[c].frames + Len(FramesFor(emitters[src][ev], c, payload))
              <= MaxFrames + 1
    /\ conns' = [c \in ConnIds |->
            WriteFrames(conns[c], FramesFor(emitters[src][ev], c, payload))]
    /\ UNCHANGED <<opts, restVars, emitters>>

\* the interval timer of connection c fires
Heartbeat(c) ==
    /\ conns[c].heartbeat
    /\ conns[c].frames <= MaxFrames
    /\ conns' = [conns EXCEPT ![c] = WriteFrame(@, HeartbeatFrame)]
    /\ UNCHANGED <<opts, restVars, emitters>>

\* a cleanup that removes the handlers and leaves the interval timer running
cleanup_KeepsTimer(c, conn) ==
    /\ conns' = [conns EXCEPT ![c] =
            [conn EXCEPT !.status = "closed", !.cleanups = @ + 1]]
    /\ emitters' = Unsubscribe(emitters, c, conn.listeners)

\* cleanup(), run for connection c whose record is conn:
\* clearInterval(heartbeat), then removeListener for every entry
cleanup(c, conn) ==
    /\ conns' = [conns EXCEPT ![c] =
            [conn EXCEPT !.status = "closed", !.heartbeat = FALSE, !.cleanups = @ + 1]]
    /\ emitters' = Unsubscribe(emitters, c, conn.listeners)

\* req emits 'close' (the client went away): cleanup runs
ReqClose(c) ==
    /\ conns[c].status # "none"
    /\ ~conns[c].closeSeen
    /\ cleanup(c, [conns[c] EXCEPT !.closeSeen = TRUE])
    /\ UNCHANGED <<opts, restVars>>

\* res emits 'error' (a write failed): cleanup runs
ResError(c) ==
    /\ conns[c].status # "none"
    /\ ~conns[c].errorSeen
    /\ cleanup(c, [conns[c] EXCEPT !.errorSeen = TRUE])
    /\ UNCHANGED <<opts, restVars>>

-----------------------------------------------------------------------------
(* The router                                                              *)

Next ==
    \/ \E r \in MutationRequests : MutationRequest(r)
    \/ guardMutation
    \/ AuthorizeSettle
    \/ QueueOpSettle
    \/ JobMutationGetJobSettle
    \/ JobOpSettle
    \/ \E r \in ReadRequests : ReadRequest(r)
    \/ JobsHandler
    \/ GetJobsSettle
    \/ \E s \in Range(VALID_STATES) : FetchSettle(s)
    \/ \E s \in Range(VALID_STATES) \cup Range(MetricTypes) : LateSettle(s)
    \/ JobHandler
    \/ JobGetJobSettle
    \/ GetJobLogsSettle
    \/ GetStateSettle
    \/ OneCallHandler
    \/ OneCallSettle
    \/ MetricsHandler
    \/ \E t \in Range(MetricTypes) : MetricsSettle(t)
    \/ QueuesHandler
    \/ \E q \in queueMap : QueueCountsSettle(q)
    \/ \E q \in queueMap : QueuePausedSettle(q)
    \/ Finish

Spec == Init /\ [][Next]_vars

-----------------------------------------------------------------------------
(* The two paginated routes alone, with every window text, on a router     *)
(* built without options (no read route reads the options)                 *)

ListingRequests ==
    JobsRequestsOver({None, Some("waiting"), Some("invalid")}, StartTexts, EndTexts)
        \cup DlqRequests

InitListing == Init /\ ~opts.given

NextListing ==
    \/ \E r \in ListingRequests : ReadRequest(r)
    \/ JobsHandler
    \/ GetJobsSettle
    \/ \E s \in Range(VALID_STATES) : FetchSettle(s)
    \/ \E s \in Range(VALID_STATES) : LateSettle(s)
    \/ OneCallHandler
    \/ OneCallSettle
    \/ Finish

SpecListing == InitListing /\ [][NextListing]_vars

-----------------------------------------------------------------------------
(* The event stream, with REST requests in flight beside it, on a router   *)
(* without a mutation guard (the stream reads neither readOnly nor         *)
(* authorize)                                                              *)

EventsRestRequests ==
    { r \in PlainReadRequests : r.route = "workers" /\ r.name \in queueMap }

InitEvents == Init /\ ~opts.readOnly /\ ~opts.authorize

NextEvents ==
    \/ \E c \in ConnIds : Connect(c)
    \/ \E src \in SourceNames, ev \in Range(eventNames), payload \in Payloads :
            Emit(src, ev, payload)
    \/ \E c \in ConnIds : Heartbeat(c)
    \/ \E c \in ConnIds : ReqClose(c)
    \/ \E c \in ConnIds : ResError(c)
    \/ \E r \in EventsRestRequests : ReadRequest(r)
    \/ OneCallHandler
    \/ OneCallSettle
    \/ Finish

SpecEvents == InitEvents /\ [][NextEvents]_vars

-----------------------------------------------------------------------------
(* Every GET route beside a guarded mutation, under every configuration    *)
(* of the guard.  The event-stream handler runs to its end without         *)
(* suspending and shares no state with the REST handlers, so it is entered *)
(* between two REST requests.                                              *)

GetRequests ==
    JobsRequestsOver({None, Some("waiting"), Some("invalid")}, {None}, {None})
        \cup JobRequests \cup PlainReadRequests \cup QueuesRequests
        \cup { r \in DlqRequests : r.query = NoQuery }
        \cup { r \in SearchRequests : r.query = NoQuery }

PauseRequests == { r \in QueueMutationRequests : r.route = "pause" }

\* GET /api/events arrives
EventsRequest(c) == Idle /\ Connect(c)

\* the client of an event stream goes away
EventsClose(c) == Idle /\ ReqClose(c)

NextReads ==
    \/ \E r \in GetRequests : ReadRequest(r)
    \/ EventsRequest(ConnOrder[1])
    \/ EventsClose(ConnOrder[1])
    \/ JobsHandler
    \/ GetJobsSettle
    \/ \E s \in Range(VALID_STATES) : FetchSettle(s)
    \/ \E s \in Range(VALID_STATES) \cup Range(MetricTypes) : LateSettle(s)
    \/ JobHandler
    \/ JobGetJobSettle
    \/ GetJobLogsSettle
    \/ GetStateSettle
    \/ OneCallHandler
    \/ OneCallSettle
    \/ MetricsHandler
    \/ \E t \in Range(MetricTypes) : MetricsSettle(t)
    \/ QueuesHandler
    \/ \E q \in queueMap : QueueCountsSettle(q)
    \/ \E q \in queueMap : QueuePausedSettle(q)
    \/ \E r \in PauseRequests : MutationRequest(r)
    \/ guardMutation
    \/ AuthorizeSettle
    \/ QueueOpSettle
    \/ Finish

SpecReads == Init /\ [][NextReads]_vars

-----------------------------------------------------------------------------
(* Properties of the mutation guard                                        *)

ReadOnlySet == opts.given /\ opts.readOnly

AuthorizeSet == opts.given /\ opts.authorize

Mutating == req.route \in MutatingRoutes

Forbidden(message) == <<[status |-> 403, body |-> [error |-> message]]>>

\* C1: with readOnly set, a request to any of the nine mutating routes is
\* answered 403 with the read-only message, and no queue or job operation
\* is invoked for it.
C1_ReadOnlyBlocksMutations ==
    (ReadOnlySet /\ req.route \in {"pause", "resume", "obliterate", "drain",
                                   "retryAll", "clean", "removeJob", "retryJob",
                                   "promoteJob"})
        => /\ calls = <<>>
           /\ pending = {}
           /\ \/ pc = "guard" /\ res = <<>>
              \/ pc = "done" /\ res = Forbidden("Dashboard is in read-only mode")

C1_Witness ==
    /\ ReadOnlySet
    /\ req.route = "promoteJob"
    /\ pc = "done"
    /\ res = Forbidden("Dashboard is in read-only mode")

\* C2: readOnly takes precedence over authorize: with readOnly set the
\* authorize callback is never invoked, and no mutating request gets any
\* response other than 403, whatever the callback would have returned.
C2_ReadOnlyBeforeAuthorize ==
    ReadOnlySet
        => /\ authCalls = <<>>
           /\ loc.auth = "none"
           /\ Mutating => \A i \in 1..Len(res) : res[i].status = 403

C2_Witness ==
    /\ ReadOnlySet
    /\ AuthorizeSet
    /\ req.route = "obliterate"
    /\ pc = "done"
    /\ authCalls = <<>>
    /\ res # <<>>

\* the engine operation each mutating route exists to perform
C3_Operation(route) ==
    CASE route = "pause"      -> "pause"
      [] route = "resume"     -> "resume"
      [] route = "obliterate" -> "obliterate"
      [] route = "drain"      -> "drain"
      [] route = "retryAll"   -> "retryJobs"
      [] route = "clean"      -> "clean"
      [] route = "removeJob"  -> "remove"
      [] route = "retryJob"   -> "retry"
      [] route = "promoteJob" -> "promote"

C3_OperationInvoked ==
    \E i \in 1..Len(calls) : calls[i].method = C3_Operation(req.route)

C3_Denied ==
    /\ pc = "done"
    /\ res = Forbidden("Unauthorized")
    /\ calls = <<>>

\* C3 as stated: with readOnly unset and authorize configured, a callback
\* that returns false (at once or after a suspension) gives 403 and no
\* engine operation, and a callback that returns true has the route's
\* operation performed.
C3_AllowedPerformsOperation ==
    (~ReadOnlySet /\ AuthorizeSet /\ Mutating)
        => /\ loc.allowed = "deny" => C3_Denied
           /\ (loc.allowed = "allow" /\ pc = "done") => C3_OperationInvoked

\* C3 as amended: a callback that returns false gives 403 and no engine
\* operation; a callback that returns true is never answered 403, and the
\* route's operation is performed unless the request ends in 404 (unknown
\* queue or job), in 400 (the clean body) or in a failure of getJob.
C3_AuthorizeDecides ==
    (~ReadOnlySet /\ AuthorizeSet /\ Mutating)
        => /\ loc.allowed = "deny" => C3_Denied
           /\ (loc.allowed = "allow" /\ pc = "done")
                => /\ Len(res) = 1
                   /\ res[1].status # 403
                   /\ \/ C3_OperationInvoked
                      \/ res[1].status \in {400, 404}
                      \/ loc.getJob = "failed"
           /\ (loc.allowed # "allow") => ~C3_OperationInvoked

C3_Witness ==
    /\ ~ReadOnlySet
    /\ AuthorizeSet
    /\ req.route = "obliterate"
    /\ loc.auth = "promise"
    /\ loc.allowed = "allow"
    /\ pc = "done"
    /\ C3_OperationInvoked
    /\ res[1].status = 200

\* the action tag each mutating route must hand to authorize
C4_Tag(route) ==
    CASE route = "pause"      -> "queue:pause"
      [] route = "resume"     -> "queue:resume"
      [] route = "obliterate" -> "queue:obliterate"
      [] route = "drain"      -> "queue:drain"
      [] route = "retryAll"   -> "queue:retryAll"
      [] route = "clean"      -> "queue:clean"
      [] route = "removeJob"  -> "job:remove"
      [] route = "retryJob"   -> "job:retry"
      [] route = "promoteJob" -> "job:promote"

\* C4: with readOnly unset and authorize configured, every request to a
\* mutating route calls authorize exactly once, with the action tag of that
\* route, and no engine call is issued before the callback has allowed it.
C4_AuthorizeOncePerRequest ==
    (~ReadOnlySet /\ AuthorizeSet /\ Mutating)
        => /\ pc = "guard" => authCalls = <<>> /\ calls = <<>>
           /\ pc # "guard" => authCalls = <<C4_Tag(req.route)>>
           /\ calls # <<>> => loc.allowed = "allow"

C4_Witness ==
    /\ ~ReadOnlySet
    /\ AuthorizeSet
    /\ req.route = "promoteJob"
    /\ authCalls = <<"job:promote">>
    /\ Len(calls) = 2
    /\ pc = "done"

\* C5: with neither readOnly nor authorize configured, also when no options
\* object is passed, the guard lets every mutating request proceed: none is
\* answered 403, and none waits for or fails in a callback.
C5_DefaultAllow ==
    (~ReadOnlySet /\ ~AuthorizeSet /\ Mutating)
        => /\ authCalls = <<>>
           /\ pc \notin {"authorize", "rejected"}
           /\ \A i \in 1..Len(res) : res[i].status # 403

C5_Witness ==
    /\ ~opts.given
    /\ req.route = "pause"
    /\ pc = "done"
    /\ res = <<[status |-> 200, body |-> [status |-> "paused"]]>>

-----------------------------------------------------------------------------
(* Properties of the listings, the lookups and the clean validation        *)

C6_Window(start, end) == 0 <= start /\ start <= end /\ end <= start + 200

\* C6: for every request to the job listing or the DLQ listing, whatever
\* its start and end parameters, the window passed to the engine or used to
\* slice the merged result satisfies 0 <= start <= end <= start + 200.
C6_PaginationWindow ==
    /\ \A i \in 1..Len(calls) :
        /\ calls[i].method = "getDeadLetterJobs"
              => C6_Window(calls[i].args[1], calls[i].args[2])
        /\ calls[i].method = "getJobs"
              => C6_Window(calls[i].args[2], calls[i].args[3])
    /\ (req.route = "jobs" /\ calls # <<>>) => C6_Window(loc.start, loc.endVal)

C7_NonIncreasing(body) ==
    \A i \in 1..(Len(body) - 1) : body[i].timestamp >= body[i + 1].timestamp

C7_UnfilteredListingAnswered ==
    /\ req.route = "jobs"
    /\ req.query.state \in {None, Some("")}
    /\ pc = "done"
    /\ Len(res) = 1
    /\ res[1].status = 200

\* C7: for every job-listing request without a state filter, the returned
\* sequence of jobs is non-increasing in creation timestamp, whatever jobs
\* the engine returns and in whatever order.
C7_ListingNonIncreasing ==
    C7_UnfilteredListingAnswered => C7_NonIncreasing(res[1].body)

C7_Witness ==
    /\ C7_UnfilteredListingAnswered
    /\ Len(tagged) = 2
    /\ tagged[1].timestamp < tagged[2].timestamp
    /\ Len(res[1].body) = 2
    /\ res[1].body[1].timestamp > res[1].body[2].timestamp

C8_FiveStates == {"waiting", "active", "delayed", "completed", "failed"}

C8_Rejected ==
    /\ pc = "done"
    /\ calls = <<>>
    /\ res = << [status |-> 400,
                 body |-> [error |-> << "Invalid state: ", req.query.state[1],
                                        ". Must be one of: ",
                                        << "waiting", "active", "delayed",
                                           "completed", "failed" >> >>]] >>

\* C8 as stated: a job-listing request on a registered queue whose state is
\* a string outside the five job states is answered 400 with a message that
\* enumerates the five states, and getJobs is not called.
C8_AnyOtherStringRejected ==
    ( /\ req.route = "jobs"
      /\ req.name \in queueMap
      /\ req.query.state # None
      /\ req.query.state[1] \notin C8_FiveStates
      /\ pc # "handler" )
        => C8_Rejected

\* C8 as amended: the same for every non-empty string outside the five job
\* states; an empty state value is treated as no state filter.
C8_InvalidStateRejected ==
    ( /\ req.route = "jobs"
      /\ req.name \in queueMap
      /\ req.query.state # None
      /\ req.query.state[1] # ""
      /\ req.query.state[1] \notin C8_FiveStates
      /\ pc # "handler" )
        => C8_Rejected

C8_Witness ==
    /\ req.route = "jobs"
    /\ req.query.state = Some("invalid")
    /\ C8_Rejected

\* a request to a route that takes :name, naming a queue outside the registry
C9_UnknownQueue ==
    /\ req.route \notin {"none", "queues"}
    /\ req.name \notin {"payments", "emails"}

C9_NotFound(message) == <<[status |-> 404, body |-> [error |-> message]]>>

GuardPassed == ~ReadOnlySet /\ (AuthorizeSet => loc.allowed = "allow")

\* C9 as stated: on every route that takes :name, read or mutating, a
\* request naming a queue that is not in the registry is answered 404; on
\* every route that takes :id, a request whose getJob returns none is
\* answered 404.
C9_UnknownIsNotFound ==
    /\ (C9_UnknownQueue /\ pc = "done") => (Len(res) = 1 /\ res[1].status = 404)
    /\ (req.route \in {"job", "removeJob", "retryJob", "promoteJob"}
            /\ loc.getJob = "null")
          => (pc = "done" /\ Len(res) = 1 /\ res[1].status = 404)

\* C9 as amended: a request naming an unknown queue is answered 404 on every
\* read route that takes :name, and on every mutating route once the
\* mutation guard has let it through (a request the guard denies is
\* answered 403 whatever queue it names); no engine call is made for it.  On
\* every route that takes :id, a request whose getJob returns none is
\* answered 404.
C9_UnknownIsNotFoundPastGuard ==
    /\ C9_UnknownQueue
          => /\ calls = <<>>
             /\ (pc = "done" /\ (Mutating => GuardPassed))
                    => res = C9_NotFound("Queue not found")
             /\ (pc = "done" /\ Mutating /\ ~GuardPassed)
                    => (Len(res) = 1 /\ res[1].status = 403)
             /\ pc \in {"guard", "authorize", "handler", "done", "rejected"}
             /\ pc = "rejected" => loc.allowed = "reject"
    /\ (req.route \in {"job", "removeJob", "retryJob", "promoteJob"}
            /\ loc.getJob = "null")
          => (pc = "done" /\ res = C9_NotFound("Job not found"))

C9_Witness ==
    /\ C9_UnknownQueue
    /\ req.route = "drain"
    /\ AuthorizeSet
    /\ loc.allowed = "allow"
    /\ pc = "done"
    /\ res = C9_NotFound("Queue not found")

\* a grace value that is not a number at all
C10_NonNumeric(text) ==
    \/ text = <<>>
    \/ \E i \in 1..Len(text) :
          text[i] \notin {"0", "1", "2", "3", "4", "5", "6", "7", "8", "9", "-", "."}

\* a grace value below zero
C10_Negative(text) ==
    /\ text # <<>>
    /\ text[1] = "-"
    /\ \E i \in 1..Len(text) :
          text[i] \in {"1", "2", "3", "4", "5", "6", "7", "8", "9"}

C10_GraceRefused(grace) ==
    grace = None \/ C10_NonNumeric(grace[1]) \/ C10_Negative(grace[1])

C10_Rejected ==
    /\ pc = "done"
    /\ Len(res) = 1
    /\ res[1].status = 400
    /\ calls = <<>>

\* C10: for a clean request on a registered queue that passes the guard, a
\* missing, non-numeric or negative grace is answered 400; otherwise a type
\* that is not exactly 'completed' or 'failed' is answered 400; in both
\* cases the engine's clean is not invoked.
C10_CleanValidation ==
    ( /\ req.route = "clean"
      /\ req.name \in queueMap
      /\ GuardPassed
      /\ pc \notin {"guard", "authorize"} )
        => IF C10_GraceRefused(req.body.grace)
           THEN C10_Rejected
           ELSE req.body.type \notin {Some("completed"), Some("failed")}
                    => C10_Rejected

-----------------------------------------------------------------------------
(* Properties of the mutation handlers past the guard                      *)

C11_MutatingOperations ==
    {"pause", "resume", "obliterate", "drain", "retryJobs", "clean",
     "remove", "retry", "promote"}

\* the calls of the request that are mutating engine operations
C11_MutatingCalls == SelectSeq(calls, LAMBDA c : c.method \in C11_MutatingOperations)

\* the guard passed, the queue is registered, the job exists (job routes)
\* and the clean body is valid
C11_Eligible ==
    /\ Mutating
    /\ GuardPassed
    /\ req.name \in {"payments", "emails"}
    /\ req.route \in {"removeJob", "retryJob", "promoteJob"} => loc.getJob = "job"
    /\ req.route = "clean"
          => /\ ~C10_GraceRefused(req.body.grace)
             /\ req.body.type \in {Some("completed"), Some("failed")}
    /\ pc = "done"

C11_OwnOperationOnce ==
    /\ Len(C11_MutatingCalls) = 1
    /\ C11_MutatingCalls[1].method = C3_Operation(req.route)
    /\ C11_MutatingCalls[1].target =
          (IF req.route \in {"removeJob", "retryJob", "promoteJob"} THEN "job" ELSE "queue")
    /\ req.route = "obliterate" => C11_MutatingCalls[1].args = <<[force |-> TRUE]>>

\* C11 as stated: for each of the nine mutating routes, when the guard
\* passes, the queue is registered, the job exists and validation passes,
\* the route's own engine operation is invoked exactly once, no other
\* mutating operation is invoked, and the response is 200.
C11_OperationOnceAnd200 ==
    C11_Eligible
        => /\ C11_OwnOperationOnce
           /\ Len(res) = 1
           /\ res[1].status = 200

\* C11 as amended: under the same conditions the route's own operation is
\* invoked exactly once and no other mutating operation is invoked; the
\* response is 200 when that operation succeeds and 500 when it fails.
C11_OperationOnce ==
    /\ Mutating => Len(C11_MutatingCalls) <= 1
    /\ C11_Eligible
          => /\ C11_OwnOperationOnce
             /\ Len(res) = 1
             /\ res[1].status \in {200, 500}
             /\ res[1].status = 200 => res[1].body.status = StatusToken(req.route)

C11_Witness ==
    /\ C11_Eligible
    /\ req.route = "retryJob"
    /\ C11_OwnOperationOnce
    /\ res = <<[status |-> 200, body |-> [status |-> "retried"]]>>

-----------------------------------------------------------------------------
(* Properties of the error responses                                       *)

C12_EngineFailed == failed # <<>>

C12_ErrorResponse(message) == <<[status |-> 500, body |-> [error |-> message]]>>

\* C12 as stated: on every route, when an engine call made for the request
\* fails, the response is 500 whose body is the single field error holding
\* the engine-supplied message verbatim.
C12_FailureIs500WithMessage ==
    C12_EngineFailed => res = C12_ErrorResponse(failed[1].message)

\* C12 as amended: when an engine call made for the request fails, the
\* response is 500 whose body is the single field error; it holds the
\* message of the first failure verbatim when that failure is an Error, and
\* the fixed text 'Internal server error' when it is any other value.
C12_FailureIs500 ==
    /\ C12_EngineFailed
          => res = C12_ErrorResponse(IF failed[1].isError
                                     THEN failed[1].message
                                     ELSE "Internal server error")
    /\ \A i \in 1..Len(res) : res[i].status = 500 => C12_EngineFailed

C12_Witness ==
    /\ req.route = "queues"
    /\ failed = <<[isError |-> TRUE, message |-> "Redis connection failed"]>>
    /\ res = C12_ErrorResponse("Redis connection failed")

-----------------------------------------------------------------------------
(* Properties of the event stream                                          *)

\* the connections that are open: opened and not yet torn down
C13_OpenConns == {c \in ConnIds : conns[c].status = "streaming"}

\* the handlers registered on source src for event ev
C13_Handlers(src, ev) == emitters[src][ev]

\* C13: closing a connection removes every handler it registered on every
\* source: after any sequence of opens and closes, the number of handlers
\* on each configured source for each event name equals the number of
\* connections still open, and no handler of a closed connection remains.
C13_NoHandlerLeak ==
    \A src \in {"payments", "emails"} :
        \A ev \in {"completed", "failed", "progress", "active", "waiting",
                    "stalled", "removed"} :
            /\ Len(C13_Handlers(src, ev)) =
                  (IF \E i \in 1..Len(queueEvents) : queueEvents[i] = src
                   THEN Cardinality(C13_OpenConns) ELSE 0)
            /\ \A i \in 1..Len(C13_Handlers(src, ev)) :
                  C13_Handlers(src, ev)[i][1] \in C13_OpenConns

C13_Witness ==
    /\ queueEvents = <<"payments", "emails">>
    /\ conns["c1"].status = "closed"
    /\ conns["c2"].status = "streaming"
    /\ Len(emitters["emails"]["removed"]) = 1
    /\ emitters["payments"]["completed"][1][1] = "c2"

C14_TerminalEvent(c) == conns[c].closeSeen \/ conns[c].errorSeen

\* C14: for every opened connection the teardown (removal of all its
\* subscriptions and cancellation of its heartbeat) is executed exactly
\* once: not zero times once a terminal event (client close or write
\* error) has occurred, and not a second time when both a write error and
\* a close are delivered for the same connection.
C14_TeardownExactlyOnce ==
    \A c \in ConnIds :
        /\ C14_TerminalEvent(c) => conns[c].cleanups = 1
        /\ ~C14_TerminalEvent(c) => conns[c].cleanups = 0

\* the handlers of connection d on source src for event ev, in list em
C15_HandlersOf(em, d, src, ev) == SelectSeq(em[src][ev], LAMBDA h : h[1] = d)

\* connection d holds a handler on every configured source, for every event
C15_FullySubscribed(d) ==
    \A i \in 1..Len(queueEvents) : \A ev \in Range(eventNames) :
        C15_HandlersOf(emitters, d, queueEvents[i], ev) # <<>>

\* a step in which connection c is torn down
C15_TornDown(c) == conns'[c].cleanups > conns[c].cleanups

\* C15: closing or erroring one connection removes only that connection's
\* subscriptions: every other connection keeps its handlers on every
\* source and its response untouched, every connection still open stays
\* subscribed to every source and event, and the REST request in flight is
\* unaffected.
C15_CloseIsLocal ==
    /\ [](\A d \in ConnIds : conns[d].status = "streaming" => C15_FullySubscribed(d))
    /\ [][\A c \in ConnIds :
            C15_TornDown(c)
                => /\ \A d \in ConnIds \ {c} :
                        /\ conns'[d] = conns[d]
                        /\ \A src \in SourceNames, ev \in Range(eventNames) :
                              C15_HandlersOf(emitters', d, src, ev)
                                  = C15_HandlersOf(emitters, d, src, ev)
                   /\ UNCHANGED restVars]_vars

\* c1 was closed before any event, with a REST call in flight; c2 has since
\* received an event
C15_Witness ==
    /\ queueEvents = <<"payments", "emails">>
    /\ conns["c1"].status = "closed"
    /\ conns["c1"].frames = 1
    /\ conns["c2"].status = "streaming"
    /\ conns["c2"].frames = 2
    /\ conns["c2"].last = DataFrame("emails", "stalled", "p1")
    /\ pc = "read"

C16_SevenEvents ==
    {"completed", "failed", "progress", "active", "waiting", "stalled", "removed"}

C16_Configured == {queueEvents[i] : i \in 1..Len(queueEvents)}

C16_Streaming(c) == conns[c].status = "streaming"

\* the number of handlers connection c holds on source src for event ev
C16_HandlerCount(c, src, ev) ==
    Cardinality({i \in 1..Len(emitters[src][ev]) : emitters[src][ev][i][1] = c})

\* a step in which a data frame is written to some connection
C16_EventWritten ==
    \E c \in ConnIds :
        /\ conns'[c].frames > conns[c].frames
        /\ conns'[c].last[1] = "data: "

\* C16: while a connection is streaming it holds exactly one handler per
\* configured source and event name, for the seven event names, and none
\* on any other source; every event fired by a configured source is
\* written to every streaming connection as exactly one data frame carrying
\* the source's name, the event name and the payload, and to no other
\* connection.
C16_OneFramePerEvent ==
    /\ [](\A c \in ConnIds : C16_Streaming(c) =>
            \A src \in {"payments", "emails"}, ev \in C16_SevenEvents :
                C16_HandlerCount(c, src, ev) = (IF src \in C16_Configured THEN 1 ELSE 0))
    /\ [][C16_EventWritten =>
            \E src \in C16_Configured, ev \in C16_SevenEvents, payload \in Payloads :
                \A c \in ConnIds :
                    IF C16_Streaming(c)
                    THEN /\ conns'[c].frames = conns[c].frames + 1
                         /\ conns'[c].last =
                               <<"data: ",
                                 [queue |-> src, event |-> ev, payload |-> payload],
                                 "\n\n">>
                    ELSE conns'[c] = conns[c]]_vars

\* both connections streaming, both handed the same event of the second
\* source
C16_Witness ==
    /\ queueEvents = <<"payments", "emails">>
    /\ \A c \in ConnIds :
          /\ C16_Streaming(c)
          /\ conns[c].frames = 2
          /\ conns[c].last = DataFrame("emails", "removed", "p1")

C17_Closed(c) == conns[c].status = "closed"

\* a step in which something is written to connection c
C17_WrittenTo(c) ==
    conns'[c].frames # conns[c].frames \/ conns'[c].last # conns[c].last

\* C17: once a connection has reached CLOSED (client disconnect or write
\* error) nothing more is ever written to it: it has no handler left on
\* any source and its heartbeat timer is cancelled; a heartbeat frame is
\* written only to a connection that is streaming.
C17_NothingAfterClosed ==
    /\ [](\A c \in ConnIds :
            /\ C17_Closed(c)
                  => /\ ~conns[c].heartbeat
                     /\ \A src \in SourceNames, ev \in Range(eventNames) :
                           \A i \in 1..Len(emitters[src][ev]) : emitters[src][ev][i][1] # c
            /\ conns[c].heartbeat => conns[c].status = "streaming")
    /\ [][\A c \in ConnIds :
            /\ C17_Closed(c) => ~C17_WrittenTo(c)
            /\ (C17_WrittenTo(c) /\ conns'[c].last = <<": heartbeat\n\n">>)
                  => conns'[c].status = "streaming"]_vars

\* c1 was closed after its priming line; c2 has since had a heartbeat
C17_Witness ==
    /\ C17_Closed("c1")
    /\ conns["c1"].frames = 1
    /\ conns["c1"].closeSeen
    /\ conns["c1"].errorSeen
    /\ conns["c2"].status = "streaming"
    /\ conns["c2"].last = HeartbeatFrame
    /\ queueEvents # <<>>

-----------------------------------------------------------------------------
(* Properties of the concurrent fetches                                    *)

C18_Registry == <<"payments", "emails">>

C18_Answered == req.route = "queues" /\ pc = "done"

\* C18: GET /api/queues returns one {name, counts, paused} entry per
\* registered queue in registry order, each with the counts its queue
\* returned, whatever the order in which the per-queue calls complete; if
\* any per-queue call fails the request yields exactly one 500 response and
\* no partial list.
C18_QueueListInRegistryOrder ==
    /\ req.route = "queues" => Len(res) <= 1
    /\ (req.route = "queues" /\ pc = "queues") => (res = <<>> /\ failed = <<>>)
    /\ C18_Answered
          => /\ Len(res) = 1
             /\ IF failed # <<>>
                THEN /\ res[1].status = 500
                     /\ DOMAIN res[1].body = {"error"}
                ELSE /\ res[1].status = 200
                     /\ Len(res[1].body) = Len(C18_Registry)
                     /\ \A i \in 1..Len(C18_Registry) :
                           /\ DOMAIN res[1].body[i] = {"name", "counts", "paused"}
                           /\ res[1].body[i].name = C18_Registry[i]
                           /\ res[1].body[i].counts = loc.counts[C18_Registry[i]][1]

\* the second queue's mapper returned first, the list is in registry order
C18_Witness ==
    /\ C18_Answered
    /\ Len(tagged) = 2
    /\ tagged[1].name = "emails"
    /\ res[1].status = 200
    /\ res[1].body[1].name = "payments"
    /\ res[1].body[2].name = "emails"

\* what the engine returned for state s, as tagged holds it
C19_Fetched(s) == SelectSeq(tagged, LAMBDA j : j.state = s)

\* the merged list had the five fetches completed in the order of the states
C19_InStateOrder ==
    C19_Fetched("waiting") \o C19_Fetched("active") \o C19_Fetched("delayed")
        \o C19_Fetched("completed") \o C19_Fetched("failed")

\* the response the same engine contents give when the fetches complete in
\* the order of the states: sorted newest first (stable), then sliced
C19_Reference == Slice(SortByTs(C19_InStateOrder), loc.start, loc.endVal)

C19_TimestampsOf(jobs) == [i \in 1..Len(jobs) |-> jobs[i].timestamp]

C19_DistinctTimestamps ==
    \A i, j \in 1..Len(tagged) : i # j => tagged[i].timestamp # tagged[j].timestamp

\* C19 as stated: for a job listing without a state filter, the returned
\* sequence is the same for every order in which the five fetches complete:
\* it equals the one obtained when they complete in the order of the states.
C19_SameForEveryInterleaving ==
    C7_UnfilteredListingAnswered => res[1].body = C19_Reference

\* C19 as amended: for every order in which the five fetches complete the
\* returned sequence has the same timestamps, newest first, and is the same
\* sequence of jobs when no two fetched jobs have equal timestamps; jobs
\* with equal timestamps appear in the order in which their fetches
\* completed.
C19_SameUpToTies ==
    C7_UnfilteredListingAnswered
        => /\ C19_TimestampsOf(res[1].body) = C19_TimestampsOf(C19_Reference)
           /\ C19_DistinctTimestamps => res[1].body = C19_Reference
           /\ \A i, j \in 1..Len(tagged) :
                 (i < j /\ tagged[i].timestamp = tagged[j].timestamp
                        /\ loc.start = 0 /\ loc.endVal >= Len(tagged))
                    => \E m, n \in 1..Len(res[1].body) :
                          /\ m < n
                          /\ res[1].body[m] = tagged[i]
                          /\ res[1].body[n] = tagged[j]

\* the failed jobs arrived before the newer waiting job; the response lists
\* the waiting job first
C19_Witness ==
    /\ C7_UnfilteredListingAnswered
    /\ Len(tagged) = 2
    /\ tagged[1].state = "failed"
    /\ tagged[2].state = "waiting"
    /\ tagged[1].timestamp < tagged[2].timestamp
    /\ loc.start = 0
    /\ res[1].body = <<tagged[2], tagged[1]>>

\* C20: for every request, at the moment its response is written no engine
\* call issued for that request is still pending; in particular for the
\* five per-state fetches of a job listing without a state, the per-queue
\* fetches of the queue list and the two metrics queries, also when one of
\* them fails.
C20_NothingPendingAtResponse ==
    [][res' # res /\ res' # <<>> => pending' = {}]_vars

-----------------------------------------------------------------------------
(* Properties of the order of the checks                                   *)

\* the request was answered 404 'Queue not found' or 400
C21_ShortCircuited ==
    \E i \in 1..Len(res) :
        \/ res[i].status = 404 /\ res[i].body.error = "Queue not found"
        \/ res[i].status = 400

\* C21: validation and lookup failures short-circuit before any engine
\* call: a request that ends in 404 'Queue not found' or in 400 (invalid job
\* state, invalid clean grace or type) has invoked no method of any queue
\* handle or job handle.
C21_NoCallBeforeValidation ==
    C21_ShortCircuited => (calls = <<>> /\ pending = {} /\ failed = <<>>)

\* a clean with a valid grace and a type that is neither of the two
C21_Witness ==
    /\ req.route = "clean"
    /\ req.name = "payments"
    /\ req.body.grace = Some(<<"1", "0", "0", "0">>)
    /\ req.body.type = Some("invalid")
    /\ pc = "done"
    /\ res = <<[status |-> 400,
                body |-> [error |-> "type must be \"completed\" or \"failed\""]]>>
    /\ calls = <<>>

-----------------------------------------------------------------------------
(* Properties of failure handling                                          *)

\* a suspended dependency of the request failed: an engine or job-handle
\* call rejected, or the authorize callback threw or rejected
C22_DependencyFailed == failed # <<>> \/ loc.allowed = "reject"

\* the handler has run to its end: it returned, or it threw
C22_Ended == pc \in {"done", "rejected"}

\* C22: no failure propagates unhandled out of a request handler: on every
\* REST route, whenever an engine call, a job-handle call or the authorize
\* callback fails, the handler still ends by writing a JSON {error}
\* response, so every request whose dependencies have all settled has
\* received a response.
C22_NoUnhandledFailure ==
    /\ pc # "rejected"
    /\ (C22_Ended /\ C22_DependencyFailed)
          => /\ Len(res) = 1
             /\ DOMAIN res[1].body = {"error"}
    /\ (C22_Ended /\ pending = {}) => Len(res) = 1

-----------------------------------------------------------------------------
(* Properties of the search and clean arguments                            *)

\* the searchJobs calls of the request
C23_SearchCalls == SelectSeq(calls, LAMBDA c : c.method = "searchJobs")

\* C23: for every search request on a registered queue, the limit passed to
\* the engine's searchJobs lies in [1, 200] for all values of the limit
\* query parameter (absent, non-numeric, zero, negative, or above 200), and
\* is 50 when the parameter is absent.
C23_SearchLimitClamped ==
    \A i \in 1..Len(C23_SearchCalls) :
        /\ C23_SearchCalls[i].args[1].limit >= 1
        /\ C23_SearchCalls[i].args[1].limit <= 200
        /\ req.query.limit = None => C23_SearchCalls[i].args[1].limit = 50

-----------------------------------------------------------------------------
(* Properties of what a denial discloses                                   *)

\* the request holds a 403 response
C24_Denied == \E i \in 1..Len(res) : res[i].status = 403

\* the one response a denial of each category gives
C24_DenialOf(readOnly) ==
    IF readOnly
    THEN <<[status |-> 403, body |-> [error |-> "Dashboard is in read-only mode"]]>>
    ELSE <<[status |-> 403, body |-> [error |-> "Unauthorized"]]>>

\* C24: a 403 response discloses only the denial category: the response of
\* a denied request is given by the category alone (read-only, or
\* unauthorized), so it is identical for two denied requests that differ in
\* whether the named queue or job exists, in the request body, or in how the
\* policy came to deny; no registry lookup result and no engine call stands
\* behind it, and a denial is never answered by anything else.
C24_DenialDisclosesCategoryOnly ==
    /\ C24_Denied
          => /\ res = C24_DenialOf(ReadOnlySet)
             /\ calls = <<>>
             /\ loc.getJob = "none"
             /\ ~ReadOnlySet => loc.allowed = "deny"
    /\ (Mutating /\ pc = "done" /\ (ReadOnlySet \/ loc.allowed = "deny")) => C24_Denied

\* the policy denied, after a suspension, the removal of a job of a queue
\* that is not registered
C24_Witness ==
    /\ req.route = "removeJob"
    /\ req.name = "nonexistent"
    /\ loc.auth = "promise"
    /\ loc.allowed = "deny"
    /\ pc = "done"
    /\ res = C24_DenialOf(FALSE)

-----------------------------------------------------------------------------
(* Properties of the read routes                                           *)

C25_GetRoutes ==
    {"queues", "jobs", "job", "workers", "schedulers", "dlq", "metrics", "search"}

C25_MutatingOperations ==
    {"pause", "resume", "obliterate", "drain", "retryJobs", "clean",
     "remove", "retry", "promote"}

C25_StateRefused ==
    /\ req.route = "jobs"
    /\ req.query.state \notin
          {<<>>, <<"">>, <<"waiting">>, <<"active">>, <<"delayed">>,
           <<"completed">>, <<"failed">>}

\* what the request and the engine alone make of the response status
C25_StatusOf ==
    IF req.route # "queues" /\ req.name \notin {"payments", "emails"} THEN 404
    ELSE IF C25_StateRefused THEN 400
    ELSE IF failed # <<>> THEN 500
    ELSE IF loc.getJob = "null" THEN 404
    ELSE 200

\* a step of the event-stream route
C25_EventsStep == conns' # conns \/ emitters' # emitters

\* C25: read routes are never guarded: for every GET route (queue list,
\* job list, single job, workers, schedulers, dlq, metrics, search, events)
\* the authorize callback is never invoked, and the response is the same
\* whether or not readOnly or authorize is configured: never a 403, and a
\* status that the request and the engine results alone decide; an opened
\* event stream has its headers and priming line written and its handlers
\* registered under every configuration.  No GET route invokes a mutating
\* engine operation.
C25_ReadsNeverGuarded ==
    /\ [](req.route \in C25_GetRoutes
            => /\ authCalls = <<>>
               /\ loc.auth = "none"
               /\ loc.allowed = "none"
               /\ pc \in {"handler", "getJobs", "fetchAll", "getJob", "getJobLogs",
                          "getState", "read", "metrics", "queues", "done"}
               /\ \A i \in 1..Len(calls) : calls[i].method \notin C25_MutatingOperations
               /\ Len(res) <= 1
               /\ pc = "done" => Len(res) = 1
               /\ \A i \in 1..Len(res) : res[i].status = C25_StatusOf)
    /\ [](\A c \in ConnIds :
            conns[c].status = "streaming"
                => /\ conns[c].frames = 1
                   /\ conns[c].last = <<"\n">>
                   /\ conns[c].heartbeat
                   /\ Len(conns[c].listeners) = 7 * Len(queueEvents))
    /\ [][C25_EventsStep => UNCHANGED <<authCalls, calls, pending, res, pc>>]_vars

\* under readOnly with an authorize callback: a stream is open and a single
\* job has been read
C25_Witness ==
    /\ ReadOnlySet
    /\ AuthorizeSet
    /\ conns["c1"].status = "streaming"
    /\ req.route = "job"
    /\ pc = "done"
    /\ Len(calls) = 3
    /\ res[1].status = 200

-----------------------------------------------------------------------------
(* Properties of the job listing                                           *)

\* a listing on a registered queue with one of the five job states
C26_Filtered ==
    /\ req.route = "jobs"
    /\ req.name \in {"payments", "emails"}
    /\ req.query.state \in
          {<<"waiting">>, <<"active">>, <<"delayed">>, <<"completed">>, <<"failed">>}

\* the number a start text stands for; 0 when absent or not a number
C26_StartOf(text) ==
    CASE text = <<>>                  -> 0
      [] text = <<<<"1">>>>           -> 1
      [] text = <<<<"-", "5">>>>      -> -5
      [] text = <<<<"a", "b", "c">>>> -> 0

\* the number an end text stands for; 20 when absent
C26_EndOf(text) ==
    CASE text = <<>>                            -> 20
      [] text = <<<<"1">>>>                     -> 1
      [] text = <<<<"2">>>>                     -> 2
      [] text = <<<<"-", "1">>>>                -> -1
      [] text = <<<<"9", "9", "9", "9", "9">>>> -> 99999

C26_WindowEnd(start, end) == IF end <= start + 200 THEN end ELSE start + 200

\* C26: for a job-listing request with a valid state, the gateway makes
\* exactly one getJobs call, with that state and the window (start,
\* min(end, start + 200)), tags every returned job with that state, and
\* returns the jobs in the order the engine returned them (no re-sorting, no
\* slicing); an end of 99999 with start 0 reaches the engine as 200.
C26_OneFetchEngineOrder ==
    (C26_Filtered /\ pc # "handler")
        => /\ calls =
                << [target |-> "queue", method |-> "getJobs",
                    args |-> << req.query.state[1],
                                C26_StartOf(req.query.start),
                                C26_WindowEnd(C26_StartOf(req.query.start),
                                              C26_EndOf(req.query.end)) >>] >>
           /\ (req.query.start = <<>> /\ req.query.end = <<<<"9", "9", "9", "9", "9">>>>)
                 => calls[1].args[3] = 200
           /\ pc \in {"getJobs", "done"}
           /\ (pc = "done" /\ failed = <<>>)
                 => res = << [status |-> 200,
                              body |-> [i \in 1..Len(loc.jobs) |->
                                          [id |-> loc.jobs[i].id,
                                           timestamp |-> loc.jobs[i].timestamp,
                                           state |-> req.query.state[1]]]] >>

\* the engine was asked for the window (0, 1) and returned two jobs, oldest
\* first: both are returned, in that order
C26_Witness ==
    /\ C26_Filtered
    /\ req.query.start = <<>>
    /\ req.query.end = <<<<"1">>>>
    /\ pc = "done"
    /\ Len(loc.jobs) = 2
    /\ loc.jobs[1].timestamp < loc.jobs[2].timestamp
    /\ Len(res[1].body) = 2
    /\ res[1].body[1].timestamp < res[1].body[2].timestamp


\* a listing on a registered queue without a state filter
C27_Unfiltered ==
    /\ req.route = "jobs"
    /\ req.name \in {"payments", "emails"}
    /\ req.query.state \in {<<>>, <<"">>}

C27_States == <<"waiting", "active", "delayed", "completed", "failed">>

\* min(end, 200)
C27_FetchEnd(end) == IF end <= 200 THEN end ELSE 200

\* C27: for a job-listing request without a state, the gateway calls
\* getJobs exactly five times, once per state, each with the window
\* [0, min(end, 200)) independent of start; every job is tagged with the
\* state it was fetched for; the response is the [start, end) slice of the
\* merged sequence sorted by creation timestamp descending.
C27_FiveFetchesMergedSorted ==
    (C27_Unfiltered /\ pc # "handler")
        => /\ calls =
                [i \in 1..5 |->
                    [target |-> "queue", method |-> "getJobs",
                     args |-> << C27_States[i], 0,
                                 C27_FetchEnd(C26_EndOf(req.query.end)) >>]]
           /\ \A i \in 1..Len(tagged) :
                 \E k \in 1..5 : tagged[i].state = C27_States[k]
           /\ (pc = "done" /\ failed = <<>>)
                 => /\ Len(res) = 1
                    /\ res[1].status = 200
                    /\ res[1].body =
                          Slice(SortByTs(tagged), C26_StartOf(req.query.start),
                                C26_EndOf(req.query.end))

-----------------------------------------------------------------------------
(* Properties of the routes that take :id                                  *)

C28_IdRoutes == {"job", "removeJob", "retryJob", "promoteJob"}

\* the one call a request whose job is missing has made
C28_GetJobOnly == <<[target |-> "queue", method |-> "getJob", args |-> <<req.id>>]>>

\* C28: on every route that takes :id, when the engine's getJob returns no
\* job the response is 404 and no further engine or job-handle operation is
\* invoked for that request (no getJobLogs, getState, remove, retry or
\* promote); when the job exists, GET job returns the job together with its
\* derived state and its log lines.
C28_MissingJobStops ==
    /\ (req.route \in C28_IdRoutes /\ loc.getJob = "null")
          => /\ pc = "done"
             /\ res = <<[status |-> 404, body |-> [error |-> "Job not found"]]>>
             /\ calls = C28_GetJobOnly
             /\ pending = {}
    /\ (req.route = "job" /\ loc.getJob = "job" /\ pc = "done" /\ failed = <<>>)
          => /\ [i \in 1..Len(calls) |-> calls[i].method]
                    = <<"getJob", "getJobLogs", "getState">>
             /\ loc.job[1].id = req.id
             /\ res = <<[status |-> 200,
                         body |-> [id |-> loc.job[1].id,
                                   timestamp |-> loc.job[1].timestamp,
                                   state |-> loc.state[1],
                                   logs |-> loc.logs[1].logs]]>>

\* the promotion of a job the engine does not have
C28_Witness ==
    /\ req.route = "promoteJob"
    /\ loc.getJob = "null"
    /\ pc = "done"
    /\ calls = C28_GetJobOnly
    /\ res[1].status = 404

\* a job read with its state and two log lines
C28_WitnessFound ==
    /\ req.route = "job"
    /\ pc = "done"
    /\ loc.state = <<"delayed">>
    /\ res[1].status = 200
    /\ res[1].body.state = "delayed"
    /\ res[1].body.logs = <<"log1", "log2">>

-----------------------------------------------------------------------------
(* Properties of the order of the checks, continued                        *)

C29_GuardDenies == ReadOnlySet \/ (AuthorizeSet /\ loc.allowed = "deny")

C29_GuardPasses == ~ReadOnlySet /\ (AuthorizeSet => loc.allowed = "allow")

C29_QueueUnknown == req.name \notin {"payments", "emails"}

\* a clean body that validation refuses: no grace, a grace that is not a
\* number, a grace of -1, or a type that is neither of the two
C29_BodyRefused ==
    /\ req.route = "clean"
    /\ \/ req.body.grace \in {<<>>, <<<<"-", "1">>>>, <<<<"a", "b", "c">>>>}
       \/ req.body.type \notin {<<"completed">>, <<"failed">>}

C29_Answer(status, message) == <<[status |-> status, body |-> [error |-> message]]>>

C29_Only(status) == Len(res) = 1 /\ res[1].status = status

\* C29: on every mutating route the checks run in the order guard,
\* registry lookup, body validation, job lookup, engine operation, and the
\* response is the one of the first failing check: 403 before 404 'Queue
\* not found' before 400 before 404 'Job not found' before 500; on the job
\* listing route 404 for the queue precedes 400 for the state.
C29_FirstFailingCheckAnswers ==
    /\ (Mutating /\ pc = "done")
          => /\ C29_GuardDenies
                  => res = C29_Answer(403, IF ReadOnlySet
                                           THEN "Dashboard is in read-only mode"
                                           ELSE "Unauthorized")
             /\ (C29_GuardPasses /\ C29_QueueUnknown)
                  => res = C29_Answer(404, "Queue not found")
             /\ (C29_GuardPasses /\ ~C29_QueueUnknown /\ C29_BodyRefused)
                  => C29_Only(400)
             /\ (C29_GuardPasses /\ ~C29_QueueUnknown /\ loc.getJob = "null")
                  => res = C29_Answer(404, "Job not found")
             /\ C29_Only(400)
                  => (C29_GuardPasses /\ ~C29_QueueUnknown /\ req.route = "clean")
             /\ C29_Only(500)
                  => /\ C29_GuardPasses
                     /\ ~C29_QueueUnknown
                     /\ ~C29_BodyRefused
                     /\ loc.getJob # "null"
                     /\ failed # <<>>
             /\ C29_Only(200)
                  => /\ C29_GuardPasses
                     /\ ~C29_QueueUnknown
                     /\ ~C29_BodyRefused
                     /\ loc.getJob # "null"
                     /\ failed = <<>>
    /\ (Mutating /\ pc \in {"getJob", "jobOp", "queueOp"})
          => (C29_GuardPasses /\ ~C29_QueueUnknown /\ ~C29_BodyRefused)
    /\ (req.route = "jobs" /\ pc = "done" /\ C29_QueueUnknown)
          => res = C29_Answer(404, "Queue not found")

\* an allowed clean of an unknown queue with a body that validation would
\* refuse: 404, not 400
C29_Witness ==
    /\ req.route = "clean"
    /\ AuthorizeSet
    /\ loc.allowed = "allow"
    /\ C29_QueueUnknown
    /\ C29_BodyRefused
    /\ pc = "done"
    /\ res = C29_Answer(404, "Queue not found")

\* a listing of an unknown queue with a state that would be refused
C29_WitnessListing ==
    /\ req.route = "jobs"
    /\ C29_QueueUnknown
    /\ req.query.state = <<"invalid">>
    /\ pc = "done"
    /\ res = C29_Answer(404, "Queue not found")

-----------------------------------------------------------------------------
(* Properties of the clean arguments                                       *)

\* the clean calls of the request
C30_CleanCalls == SelectSeq(calls, LAMBDA c : c.method = "clean")

\* the grace texts that are non-negative integers
C30_NonNegativeIntegers == { <<<<"0">>>>, <<<<"1", "0", "0", "0">>>> }

C30_ValueOf(text) ==
    CASE text = <<<<"0">>>>                -> 0
      [] text = <<<<"1", "0", "0", "0">>>> -> 1000

\* C30: for every clean request that reaches the engine, the limit argument
\* passed to the engine's clean is at most 1000 whatever limit the body
\* carries (100 when the body carries none), the grace argument is the
\* non-negative integer supplied, and the response reports the number of
\* removed job ids returned by the engine.
C30_CleanArguments ==
    /\ \A i \in 1..Len(C30_CleanCalls) :
          /\ C30_CleanCalls[i].args[2] <= 1000
          /\ req.body.limit = <<>> => C30_CleanCalls[i].args[2] = 100
          /\ req.body.grace \in C30_NonNegativeIntegers
          /\ C30_CleanCalls[i].args[1] = C30_ValueOf(req.body.grace)
    /\ (req.route = "clean" /\ pc = "done" /\ Len(res) = 1 /\ res[1].status = 200)
          => res[1].body = [status |-> "ok", removed |-> Len(loc.result[1])]

-----------------------------------------------------------------------------
(* Properties of the retry-all arguments                                   *)

\* the retryJobs calls of the request
C31_RetryCalls == SelectSeq(calls, LAMBDA c : c.method = "retryJobs")

\* the count texts that parse to a positive integer
C31_Positive == { <<<<"3">>>> }

C31_ValueOf(text) == CASE text = <<<<"3">>>> -> 3

\* the count texts that are absent, non-numeric, zero or negative
C31_NoCap == { <<>>, <<<<"x">>>>, <<<<"0">>>>, <<<<"-", "2">>>> }

\* C31: for retry-all, the engine's retryJobs receives a cap only when the
\* body's count parses to a positive integer, and that cap equals the
\* count; for an absent, non-numeric, zero or negative count retryJobs is
\* called without a cap; the response reports the number the engine
\* returned as retried.
C31_RetryAllCap ==
    /\ Len(C31_RetryCalls) <= 1
    /\ \A i \in 1..Len(C31_RetryCalls) :
          /\ req.route = "retryAll"
          /\ req.body.count \in C31_Positive \cup C31_NoCap
          /\ req.body.count \in C31_Positive
                => C31_RetryCalls[i].args = <<<<[count |-> C31_ValueOf(req.body.count)]>>>>
          /\ req.body.count \in C31_NoCap => C31_RetryCalls[i].args = <<<<>>>>
    /\ (req.route = "retryAll" /\ pc = "done" /\ Len(res) = 1 /\ res[1].status = 200)
          => /\ Len(C31_RetryCalls) = 1
             /\ res[1].body = [status |-> "ok", retried |-> loc.result[1]]

\* a retry-all capped at 3 of which the engine retried 5
C31_Witness ==
    /\ req.route = "retryAll"
    /\ req.body.count = <<<<"3">>>>
    /\ C31_RetryCalls = <<[target |-> "queue", method |-> "retryJobs",
                           args |-> <<<<[count |-> 3]>>>>]>>
    /\ pc = "done"
    /\ res = <<[status |-> 200, body |-> [status |-> "ok", retried |-> 5]]>>

\* a retry-all with a negative count, called without a cap
C31_WitnessNoCap ==
    /\ req.route = "retryAll"
    /\ req.body.count = <<<<"-", "2">>>>
    /\ Len(C31_RetryCalls) = 1
    /\ C31_RetryCalls[1].args = <<<<>>>>
    /\ pc = "done"
    /\ res[1].status = 200

-----------------------------------------------------------------------------
(* Properties of the search filters                                        *)

\* a search on a registered queue
C32_Search == req.route = "search" /\ req.name \in {"payments", "emails"}

\* the searchJobs calls of the request
C32_SearchCalls == SelectSeq(calls, LAMBDA c : c.method = "searchJobs")

C32_ValidStates ==
    {<<"waiting">>, <<"active">>, <<"delayed">>, <<"completed">>, <<"failed">>}

\* the state filter the engine is to see: the one given when it is one of
\* the five states, none otherwise
C32_StateFilter == IF req.query.state \in C32_ValidStates THEN req.query.state ELSE <<>>

\* the data filter the engine is to see: the value of the JSON text, none
\* when the text is absent, empty or not JSON
C32_DataFilter ==
    CASE req.query.data = <<<<"{", "}">>>> -> <<[type |-> "object", number |-> 0]>>
      [] req.query.data = <<<<"1">>>>      -> <<[type |-> "number", number |-> 1]>>
      [] req.query.data \in {<<>>, <<<<>>>>, <<<<"{">>>>} -> <<>>

\* C32: the search route never rejects a filter: an invalid JSON data value
\* is dropped and a state value outside the five job states is dropped, the
\* engine's searchJobs is still invoked once, and every searchJobs call
\* carries a state that is either absent or one of the five valid states.
C32_FiltersDroppedNotRejected ==
    /\ \A i \in 1..Len(C32_SearchCalls) :
          C32_SearchCalls[i].args[1].state \in C32_ValidStates \cup {<<>>}
    /\ (C32_Search /\ pc # "handler")
          => /\ Len(calls) = 1
             /\ Len(C32_SearchCalls) = 1
             /\ C32_SearchCalls[1].args[1].state = C32_StateFilter
             /\ C32_SearchCalls[1].args[1].data = C32_DataFilter
             /\ \A i \in 1..Len(res) : res[i].status \in {200, 500}
             /\ \A i \in 1..Len(res) : res[i].status = 500 => failed # <<>>

\* a search with a state outside the five and a text that is not JSON,
\* answered 200
C32_Witness ==
    /\ C32_Search
    /\ req.query.state = <<"invalid">>
    /\ req.query.data = <<<<"{">>>>
    /\ Len(C32_SearchCalls) = 1
    /\ C32_SearchCalls[1].args[1].state = <<>>
    /\ C32_SearchCalls[1].args[1].data = <<>>
    /\ pc = "done"
    /\ res[1].status = 200

-----------------------------------------------------------------------------
(* Properties of the response writes                                       *)

\* the handler of the request has run to its end
C33_HandlerEnded == pc \in {"done", "rejected"}

\* C33: every REST request is answered by exactly one response write: in
\* every execution path, including guard denial, lookup miss, validation
\* failure, and failure of one or several of the concurrent engine calls of
\* the same request, the handler never writes a second response, and it
\* does not end without having written one.
C33_ExactlyOneResponse ==
    /\ Len(res) <= 1
    /\ C33_HandlerEnded => Len(res) = 1


\* what holds of the response writes on every path: never a second write,
\* one write for every handler that returned, and none for a handler left
\* by the rejection of the authorize callback
C33_AtMostOneResponse ==
    /\ Len(res) <= 1
    /\ pc = "done" => Len(res) = 1
    /\ pc = "rejected" => (res = <<>> /\ loc.allowed = "reject")

\* two of the five concurrent fetches of a listing failed: one 500
C33_TwoFailuresOneResponse ==
    /\ req.route = "jobs"
    /\ pc = "done"
    /\ Len(failed) >= 2
    /\ Len(res) = 1
    /\ res[1].status = 500

=============================================================================
